---------------------------- MODULE Spec2Model ----------------------------
(***************************************************************************)
(* A model of the mealmosaic client: the useCSVData hook (dataset          *)
(* selection and fetches), the CSVViewer view state with its effects, the  *)
(* CategoryManager cascade and the filter / formula / sort pipeline.       *)
(*                                                                         *)
(* Strings are TLA+ strings handled character by character (SubSeq), so    *)
(* split, trim, join, startsWith, includes, parseFloat and the two regular *)
(* expressions of the formula check are computed the way the code computes *)
(* them.  Numbers are exact rationals plus NaN, +Infinity and -Infinity.   *)
(***************************************************************************)
EXTENDS Integers, Sequences, FiniteSets, Bags, TLC

(***************************************************************************)
(* Bounds of the model (not program constants).                            *)
(***************************************************************************)
\* at most this many dataset fetches are in flight at once
MaxInflight == 2
\* at most this many rows are deleted / edited on the server in one run
MaxWrites == 1
\* the largest page size the pagination properties range over
MaxPageSize == 7
\* rows a client of the API other than the viewer deletes or rewrites
MaxRowWrites == 2
\* availability refreshes the operator starts in one run
MaxRefreshes == 2
\* the bytes of a response the network may hold back when it delivers a chunk
HeldBack == 4
\* the largest count a progress message carries
MaxTotal == 6

(***************************************************************************)
(* Small helpers.                                                          *)
(***************************************************************************)
NULL == "null"
\* what row[column] yields for a column the row does not have
UNDEFINED == "<undefined>"
\* stands for U+00A0 (non-breaking space) in the model's strings
NBSP == "~"

Range(f) == {f[i] : i \in DOMAIN f}

Includes(seq, x) == \E i \in DOMAIN seq : seq[i] = x

Max(a, b) == IF a >= b THEN a ELSE b
Min(a, b) == IF a <= b THEN a ELSE b

(***************************************************************************)
(* Character-level string operations (JavaScript String methods).          *)
(***************************************************************************)
CharAt(s, i) == SubSeq(s, i, i)

Digits == <<"0", "1", "2", "3", "4", "5", "6", "7", "8", "9">>
IsDigit(c) == \E i \in 1..10 : Digits[i] = c
DigitVal(c) == (CHOOSE i \in 1..10 : Digits[i] = c) - 1

\* characters String.prototype.trim and \s treat as white space
IsSpace(c) == c = " " \/ c = NBSP

\* s.startsWith(p)
StartsWith(s, p) == Len(p) <= Len(s) /\ SubSeq(s, 1, Len(p)) = p

\* s.includes(p)
StrIncludes(s, p) ==
  \E i \in 1..(Len(s) + 1) : i + Len(p) - 1 <= Len(s) /\ SubSeq(s, i, i + Len(p) - 1) = p

\* s.trim()
RECURSIVE TrimStart(_)
TrimStart(s) == IF Len(s) > 0 /\ IsSpace(CharAt(s, 1)) THEN TrimStart(SubSeq(s, 2, Len(s))) ELSE s
RECURSIVE TrimEnd(_)
TrimEnd(s) == IF Len(s) > 0 /\ IsSpace(CharAt(s, Len(s))) THEN TrimEnd(SubSeq(s, 1, Len(s) - 1)) ELSE s
Trim(s) == TrimEnd(TrimStart(s))

\* s.split(sep) for a one-character separator: a sequence of strings
RECURSIVE SplitFrom(_, _, _, _)
SplitFrom(s, sep, i, cur) ==
  IF i > Len(s) THEN <<cur>>
  ELSE IF CharAt(s, i) = sep THEN <<cur>> \o SplitFrom(s, sep, i + 1, "")
       ELSE SplitFrom(s, sep, i + 1, cur \o CharAt(s, i))
Split(s, sep) == SplitFrom(s, sep, 1, "")

\* parts.join(sep)
RECURSIVE Join(_, _)
Join(parts, sep) ==
  IF parts = <<>> THEN ""
  ELSE IF Len(parts) = 1 THEN parts[1]
       ELSE parts[1] \o sep \o Join(Tail(parts), sep)

Upper == <<"A","B","C","D","E","F","G","H","I","J","K","L","M","N","O","P","Q","R","S","T","U","V","W","X","Y","Z">>
Lower == <<"a","b","c","d","e","f","g","h","i","j","k","l","m","n","o","p","q","r","s","t","u","v","w","x","y","z">>
LowerChar(c) == IF \E i \in 1..26 : Upper[i] = c THEN Lower[CHOOSE i \in 1..26 : Upper[i] = c] ELSE c

\* str.replace(/\u00A0/g, ' ').toLowerCase()
RECURSIVE NormalizeChars(_)
NormalizeChars(s) ==
  IF Len(s) = 0 THEN ""
  ELSE (IF CharAt(s, 1) = NBSP THEN " " ELSE LowerChar(CharAt(s, 1)))
         \o NormalizeChars(SubSeq(s, 2, Len(s)))

\* normalizeString: null/undefined -> '', NBSP -> ' ', lower case
normalizeString(str) == IF str = UNDEFINED THEN "" ELSE NormalizeChars(str)

\* normalizeHeader: strip a leading BOM, trim (the model's headers carry no BOM)
normalizeHeader(header) == Trim(header)

(***************************************************************************)
(* Numbers: IEEE doubles as exact rationals n/d (d > 0) and the three      *)
(* non-finite values.                                                      *)
(***************************************************************************)
Fin(n, d) == [k |-> "fin", n |-> n, d |-> d]
NaN == [k |-> "nan", n |-> 0, d |-> 1]
PInf == [k |-> "pinf", n |-> 0, d |-> 1]
NInf == [k |-> "ninf", n |-> 0, d |-> 1]

RECURSIVE Gcd(_, _)
Gcd(a, b) == IF b = 0 THEN a ELSE Gcd(b, a % b)
Abs(a) == IF a < 0 THEN -a ELSE a
\* the rational n/d in lowest terms with a positive denominator
Norm(n, d) ==
  LET g == Gcd(Abs(n), Abs(d))
      s == IF d < 0 THEN -1 ELSE 1
  IN  Fin((s * n) \div g, (s * d) \div g)

isNaN(x) == x.k = "nan"
Sign(x) == CASE x.k = "pinf" -> 1 [] x.k = "ninf" -> -1 [] x.k = "nan" -> 0
             [] OTHER -> IF x.n > 0 THEN 1 ELSE IF x.n < 0 THEN -1 ELSE 0
Inf(sgn) == IF sgn > 0 THEN PInf ELSE NInf
Neg(x) == CASE x.k = "fin" -> Fin(-x.n, x.d) [] x.k = "pinf" -> NInf
            [] x.k = "ninf" -> PInf [] OTHER -> NaN

NumAdd(x, y) ==
  CASE isNaN(x) \/ isNaN(y) -> NaN
    [] x.k = "fin" /\ y.k = "fin" -> Norm(x.n * y.d + y.n * x.d, x.d * y.d)
    [] x.k = "fin" -> y
    [] y.k = "fin" -> x
    [] OTHER -> IF x.k = y.k THEN x ELSE NaN
NumSub(x, y) == NumAdd(x, Neg(y))
NumMul(x, y) ==
  CASE isNaN(x) \/ isNaN(y) -> NaN
    [] x.k = "fin" /\ y.k = "fin" -> Norm(x.n * y.n, x.d * y.d)
    [] OTHER -> IF Sign(x) = 0 \/ Sign(y) = 0 THEN NaN ELSE Inf(Sign(x) * Sign(y))
NumDiv(x, y) ==
  CASE isNaN(x) \/ isNaN(y) -> NaN
    [] x.k = "fin" /\ y.k = "fin" ->
         IF y.n # 0 THEN Norm(x.n * y.d, x.d * y.n)
         ELSE IF x.n = 0 THEN NaN ELSE Inf(Sign(x))
    [] x.k = "fin" -> Fin(0, 1)
    [] y.k = "fin" -> Inf(Sign(x) * (IF Sign(y) < 0 THEN -1 ELSE 1))
    [] OTHER -> NaN

\* x < y, x = y, x <= y of IEEE numbers (every comparison with NaN is false)
NumLt(x, y) ==
  CASE isNaN(x) \/ isNaN(y) -> FALSE
    [] x.k = "fin" /\ y.k = "fin" -> x.n * y.d < y.n * x.d
    [] x.k = "ninf" -> y.k # "ninf"
    [] y.k = "pinf" -> x.k # "pinf"
    [] OTHER -> FALSE
NumEq(x, y) == ~isNaN(x) /\ ~isNaN(y) /\ x = y
NumLe(x, y) == NumLt(x, y) \/ NumEq(x, y)

(***************************************************************************)
(* parseFloat: leading white space, an optional sign, digits with an       *)
(* optional fraction; NaN when no digit is found.                          *)
(***************************************************************************)
RECURSIVE Pow10(_)
Pow10(n) == IF n = 0 THEN 1 ELSE 10 * Pow10(n - 1)

\* the run of digits of s starting at i: its value, its length
RECURSIVE DigitRun(_, _, _, _)
DigitRun(s, i, acc, cnt) ==
  IF i <= Len(s) /\ IsDigit(CharAt(s, i))
  THEN DigitRun(s, i + 1, acc * 10 + DigitVal(CharAt(s, i)), cnt + 1)
  ELSE [v |-> acc, cnt |-> cnt]

\* an unsigned decimal literal at position i of s: [ok, v, next]
DecimalAt(s, i) ==
  LET ip == DigitRun(s, i, 0, 0)
      j  == i + ip.cnt
      hasDot == j <= Len(s) /\ CharAt(s, j) = "."
      fp == IF hasDot THEN DigitRun(s, j + 1, 0, 0) ELSE [v |-> 0, cnt |-> 0]
  IN  IF ip.cnt + fp.cnt = 0 THEN [ok |-> FALSE, v |-> NaN, next |-> i]
      ELSE [ok |-> TRUE,
            v |-> Norm(ip.v * Pow10(fp.cnt) + fp.v, Pow10(fp.cnt)),
            next |-> IF hasDot THEN j + 1 + fp.cnt ELSE j]

parseFloat(str) ==
  LET s == TrimStart(str)
      neg == Len(s) > 0 /\ CharAt(s, 1) = "-"
      pos == Len(s) > 0 /\ CharAt(s, 1) = "+"
      r == DecimalAt(s, IF neg \/ pos THEN 2 ELSE 1)
  IN  IF ~r.ok THEN NaN ELSE IF neg THEN Neg(r.v) ELSE r.v

(***************************************************************************)
(* Records (rows) and the formula micro-language.                          *)
(***************************************************************************)
\* row[column]
Cell(row, column) == IF column \in DOMAIN row THEN row[column] ELSE UNDEFINED

QUOTE == "\""

\* the first index >= i of s that holds a quote, Len(s) + 1 when there is none
RECURSIVE NextQuote(_, _)
NextQuote(s, i) ==
  IF i > Len(s) THEN Len(s) + 1
  ELSE IF CharAt(s, i) = QUOTE THEN i ELSE NextQuote(s, i + 1)

\* whether /"([^"]+)"/ matches at position i of s
QuotedAt(s, i) ==
  /\ i <= Len(s) /\ CharAt(s, i) = QUOTE
  /\ NextQuote(s, i + 1) <= Len(s)
  /\ NextQuote(s, i + 1) > i + 1

\* the captures of every match of /"([^"]+)"/g in s, left to right
RECURSIVE QuotedRefsFrom(_, _)
QuotedRefsFrom(s, i) ==
  IF i > Len(s) THEN <<>>
  ELSE IF QuotedAt(s, i)
       THEN <<SubSeq(s, i + 1, NextQuote(s, i + 1) - 1)>>
              \o QuotedRefsFrom(s, NextQuote(s, i + 1) + 1)
       ELSE QuotedRefsFrom(s, i + 1)
QuotedRefs(s) == QuotedRefsFrom(s, 1)

\* s.replace(/"[^\"]+"/g, '')
RECURSIVE StripQuotedFrom(_, _)
StripQuotedFrom(s, i) ==
  IF i > Len(s) THEN ""
  ELSE IF QuotedAt(s, i) THEN StripQuotedFrom(s, NextQuote(s, i + 1) + 1)
       ELSE CharAt(s, i) \o StripQuotedFrom(s, i + 1)
StripQuoted(s) == StripQuotedFrom(s, 1)

\* the first index >= i of s that holds no white space
RECURSIVE SkipWs(_, _)
SkipWs(s, i) == IF i <= Len(s) /\ IsSpace(CharAt(s, i)) THEN SkipWs(s, i + 1) ELSE i

\* /\/\s*0(?![0-9])/.test(s)
DivByZeroLiteral(s) ==
  \E i \in 1..Len(s) :
     /\ CharAt(s, i) = "/"
     /\ LET j == SkipWs(s, i + 1)
        IN  /\ j <= Len(s) /\ CharAt(s, j) = "0"
            /\ ~(j + 1 <= Len(s) /\ IsDigit(CharAt(s, j + 1)))

\* (parseFloat(row[col]) || 0)
RefValue(row, col) ==
  LET v == parseFloat(Cell(row, col))
  IN  IF isNaN(v) \/ v = Fin(0, 1) THEN Fin(0, 1) ELSE v

(***************************************************************************)
(* The expression new Function compiles, restricted to the formula         *)
(* language: quoted references, decimal literals, + - * /, unary sign and  *)
(* parentheses.  Each operator returns [ok, v, next]: ok is FALSE where    *)
(* JavaScript raises a SyntaxError.  (Formulas outside this language, such *)
(* as identifiers, ** or --, are not among the model's inputs.)            *)
(***************************************************************************)
Fail(i) == [ok |-> FALSE, v |-> NaN, next |-> i]

\* one recursive-descent parser and evaluator; level names the production:
\* expr = term (("+" | "-") term)*, term = unary (("*" | "/") unary)*,
\* unary = ("+" | "-") unary | primary, primary = "(" expr ")" | reference | literal;
\* acc is the value to the left of position i in the "-rest" levels
RECURSIVE EvalAt(_, _, _, _, _)
EvalAt(level, s, i, row, acc) ==
  LET j == SkipWs(s, i)
      c == IF j <= Len(s) THEN CharAt(s, j) ELSE ""
  IN  CASE level = "expr" ->
             LET r == EvalAt("term", s, i, row, acc)
             IN  IF r.ok THEN EvalAt("exprRest", s, r.next, row, r.v) ELSE r
        [] level = "exprRest" ->
             IF c = "+" \/ c = "-"
             THEN LET r == EvalAt("term", s, j + 1, row, acc)
                  IN  IF r.ok
                      THEN EvalAt("exprRest", s, r.next, row,
                                  IF c = "+" THEN NumAdd(acc, r.v) ELSE NumSub(acc, r.v))
                      ELSE r
             ELSE [ok |-> TRUE, v |-> acc, next |-> i]
        [] level = "term" ->
             LET r == EvalAt("unary", s, i, row, acc)
             IN  IF r.ok THEN EvalAt("termRest", s, r.next, row, r.v) ELSE r
        [] level = "termRest" ->
             IF c = "*" \/ c = "/"
             THEN LET r == EvalAt("unary", s, j + 1, row, acc)
                  IN  IF r.ok
                      THEN EvalAt("termRest", s, r.next, row,
                                  IF c = "*" THEN NumMul(acc, r.v) ELSE NumDiv(acc, r.v))
                      ELSE r
             ELSE [ok |-> TRUE, v |-> acc, next |-> i]
        [] level = "unary" ->
             IF c = "-" \/ c = "+"
             THEN LET r == EvalAt("unary", s, j + 1, row, acc)
                  IN  IF r.ok THEN [r EXCEPT !.v = IF c = "-" THEN Neg(r.v) ELSE r.v] ELSE r
             ELSE EvalAt("primary", s, j, row, acc)
        [] OTHER ->
             CASE c = "(" ->
                    LET r == EvalAt("expr", s, j + 1, row, acc)
                        k == SkipWs(s, r.next)
                    IN  IF r.ok /\ k <= Len(s) /\ CharAt(s, k) = ")"
                        THEN [ok |-> TRUE, v |-> r.v, next |-> k + 1]
                        ELSE Fail(j)
               [] c = QUOTE ->
                    IF QuotedAt(s, j)
                    THEN [ok |-> TRUE,
                          v |-> RefValue(row, SubSeq(s, j + 1, NextQuote(s, j + 1) - 1)),
                          next |-> NextQuote(s, j + 1) + 1]
                    ELSE Fail(j)
               [] IsDigit(c) \/ c = "." -> DecimalAt(s, j)
               [] OTHER -> Fail(j)

EvalExpr(s, i, row) == EvalAt("expr", s, i, row, NaN)

\* whether new Function('row', 'return <expr>;') compiles
Compiles(formula) ==
  LET r == EvalExpr(formula, 1, <<>>)
  IN  r.ok /\ SkipWs(formula, r.next) > Len(formula)

\* the value of the compiled formula on a row
EvalFormula(formula, row) == EvalExpr(formula, 1, row).v

(***************************************************************************)
(* Program constants.                                                      *)
(***************************************************************************)
\* config/columnConfig.ts
ALWAYS_HIDDEN_COLUMNS == <<"html_path">>
HIDDEN_BY_DEFAULT_COLUMNS == <<"url", "pri/we", "pro/cal", "content", "description", "category">>
SHOWN_BY_DEFAULT_COLUMNS ==
  <<"imgUrl", "name", "megacategory", "price", "weight", "calories", "proteins", "fats",
    "carbohydrates", "average_rating", "rating_count", "availability", "last_upd_time">>
\* CSVViewer
NUMERIC_COLUMNS ==
  <<"pri/we", "pro/cal", "weight", "price", "calories", "proteins", "fats", "carbohydrates",
    "average_rating", "rating_count">>
CATEGORY_COLUMN == "category"
\* the calories value that stands for "unknown macros"
UNKNOWN_MACROS == 100500
\* useState(10) of rowsPerPage
DEFAULT_ROWS_PER_PAGE == 10
\* .slice(0, 15) of the formula history
FORMULA_HISTORY_SIZE == 15

(***************************************************************************)
(* The Row Store the client talks to: two shops, three files.  Two shops   *)
(* hold a file of the same name, and shopB's file has no price column; its  *)
(* urls are http urls, one with a trailing slash and one with a query.     *)
(* drinks.csv is longer than the smallest page and holds equal prices.     *)
(***************************************************************************)
Shops == <<"shopA", "shopB">>
ServerStructure ==
  [shop \in Range(Shops) |->
     IF shop = "shopA" THEN <<"meals.csv", "drinks.csv">> ELSE <<"meals.csv">>]

Dataset(shop, file) == <<shop, file>>
Datasets == {Dataset(sh, f) : sh \in Range(Shops), f \in {"meals.csv", "drinks.csv"}}
              \ {Dataset("shopB", "drinks.csv")}

HeadersA == <<"url", "name", "price", "calories", "category">>
\* shopB's file also has a column of no bucket, the always hidden column and the two
\* columns the availability refresh writes
HeadersB ==
  <<"url", "name", "calories", "category", "brand", "html_path", "availability",
    "last_upd_time">>
StoreHeaders(ds) == IF ds[1] = "shopA" THEN HeadersA ELSE HeadersB

RowA(url, name, price, calories, category) ==
  [url |-> url, name |-> name, price |-> price, calories |-> calories, category |-> category]
RowB(url, name, calories, category) ==
  [url |-> url, name |-> name, calories |-> calories, category |-> category,
   brand |-> "Acme", html_path |-> "/p/" \o name, availability |-> "0",
   last_upd_time |-> "2025-01-01 10:00:00"]

InitialStore ==
  [ds \in Datasets |->
     CASE ds = Dataset("shopA", "meals.csv") ->
            << RowA("a1", "Latte", "10", "100500", "Drinks#Coffee"),
               RowA("a2", "Green" \o NBSP \o "Tea", "0", "50", "Drinks # Tea"),
               RowA("a3", "Chips", "5", "500", "Snacks"),
               RowA("a4", "Water", "x", "0", "") >>
       [] ds = Dataset("shopA", "drinks.csv") ->
            << RowA("d1", "Cola", "10", "42", "Drinks"),
               RowA("d2", "Juice", "10.00", "100500", "Drinks#Juice"),
               RowA("d3", "Soda", "10.5", "40", "Drinks"),
               RowA("d4", "Kvass", "7", "35", "Drinks"),
               RowA("d5", "Milk", "7", "35", "Drinks"),
               RowA("d6", "Cocoa", "12", "90", "Drinks") >>
       [] OTHER ->
            << RowB("http://b/1/", "Soup", "60", "Soups"),
               RowB("http://b/2?v=1", "Nuts", "600", "Snacks") >>]

(***************************************************************************)
(* Category tree (CSVViewer.buildTree) and CategoryManager.                *)
(* The forest is kept as the sequence of its nodes in creation order; a    *)
(* node records its parent's path (NULL for a root).                       *)
(***************************************************************************)
\* String(rawValue).split('#').map(p => p.trim()).join('#')
CanonicalPath(rawValue) ==
  LET parts == Split(rawValue, "#")
  IN  Join([i \in DOMAIN parts |-> Trim(parts[i])], "#")

\* the nodes the walk over one canonical path creates: one per prefix not yet in the tree
RECURSIVE WalkPath(_, _, _)
WalkPath(tree, parts, index) ==
  IF index > Len(parts) THEN tree
  ELSE LET nodePath == Join(SubSeq(parts, 1, index), "#")
           exists == \E i \in DOMAIN tree : tree[i].path = nodePath
           node == [name |-> parts[index], path |-> nodePath,
                    parent |-> IF index = 1 THEN NULL
                               ELSE Join(SubSeq(parts, 1, index - 1), "#")]
       IN  WalkPath(IF exists THEN tree ELSE Append(tree, node), parts, index + 1)

RECURSIVE BuildTreeFrom(_, _, _)
BuildTreeFrom(rows, tree, allPaths) ==
  IF rows = <<>> THEN [tree |-> tree, allPaths |-> allPaths]
  ELSE LET rawValue == IF Cell(Head(rows), CATEGORY_COLUMN) = UNDEFINED THEN ""
                       ELSE Cell(Head(rows), CATEGORY_COLUMN)
       IN  IF rawValue = "" THEN BuildTreeFrom(Tail(rows), tree, allPaths)
           ELSE LET path == CanonicalPath(rawValue)
                IN  BuildTreeFrom(Tail(rows), WalkPath(tree, Split(path, "#"), 1),
                                  Append(allPaths, path))

\* buildTree(): the forest and the canonical paths of the rows
buildTree(rows) == BuildTreeFrom(rows, <<>>, <<>>)

\* collectPaths / collectAll: every node path of the forest
collectPaths(tree) == [i \in DOMAIN tree |-> tree[i].path]

areAllSelected(flatAllPaths, selected) == \A i \in DOMAIN flatAllPaths : flatAllPaths[i] \in selected

\* CategoryManager.toggleAll
toggleAll(flatAllPaths, selected) ==
  IF ~areAllSelected(flatAllPaths, selected) THEN Range(flatAllPaths) ELSE {}

\* togglePath without the ancestors of a selected node
togglePathNoAncestors(flatAllPaths, selected, path) ==
  LET descendants == {p \in Range(flatAllPaths) : p = path \/ StartsWith(p, path \o "#")}
  IN  IF path \in selected THEN selected \ descendants ELSE selected \cup descendants

\* CategoryManager.togglePath
togglePath(flatAllPaths, selected, path) ==
  LET descendants == {p \in Range(flatAllPaths) : p = path \/ StartsWith(p, path \o "#")}
      parts == Split(path, "#")
      ancestors == {Join(SubSeq(parts, 1, i), "#") : i \in 1..(Len(parts) - 1)}
  IN  IF path \in selected THEN selected \ descendants
      ELSE selected \cup descendants \cup ancestors

\* the Selection Set the category effect leaves when the file did not change
reconcileSelection(prev, allPaths) ==
  IF prev = {} THEN Range(allPaths)
  ELSE LET hasNewPaths == \E i \in DOMAIN allPaths : allPaths[i] \notin prev
           hasRemovedPaths == \E p \in prev : ~Includes(allPaths, p)
           validSelections == {p \in prev : Includes(allPaths, p)}
       IN  IF hasNewPaths \/ hasRemovedPaths
           THEN IF validSelections # {} THEN validSelections ELSE Range(allPaths)
           ELSE prev

(***************************************************************************)
(* The pipeline: CSVViewer.processedData over a state s (a record of the   *)
(* hook's and the viewer's state).                                         *)
(***************************************************************************)
\* a filter's unset bound (null)
NullNum == [k |-> "null", n |-> 0, d |-> 1]
\* !x of a bound: null, 0 and NaN are falsy
Falsy(x) == x.k = "null" \/ x.k = "nan" \/ x = Fin(0, 1)

NumberEquals(value) ==
  [type |-> "equals", value |-> value, min |-> NullNum, max |-> NullNum,
   contains |-> <<>>, exclude |-> <<>>]
NumberRange(min, max) ==
  [type |-> "range", value |-> NullNum, min |-> min, max |-> max,
   contains |-> <<>>, exclude |-> <<>>]
StringFilter(contains, exclude) ==
  [type |-> "string", value |-> NullNum, min |-> NullNum, max |-> NullNum,
   contains |-> contains, exclude |-> exclude]

\* the canonical category path of a row, '' for a row with no category
RowPath(row) ==
  LET rawValue == IF Cell(row, CATEGORY_COLUMN) = UNDEFINED THEN ""
                  ELSE Cell(row, CATEGORY_COLUMN)
  IN  IF rawValue # "" THEN CanonicalPath(rawValue) ELSE ""

\* stage 1: category filter (if category column exists)
CategoryStage(s) ==
  IF (\E i \in DOMAIN s.headers : normalizeHeader(s.headers[i]) = CATEGORY_COLUMN)
       /\ Cardinality(s.selectedCategories) > 0
  THEN SelectSeq(s.data, LAMBDA row : RowPath(row) \in s.selectedCategories)
  ELSE s.data

\* a search that also looks into the columns that are not shown
SearchStageAllColumns(s, rows) ==
  IF s.searchQuery # ""
  THEN SelectSeq(rows, LAMBDA row :
         \E i \in DOMAIN s.columnOrder :
            StrIncludes(normalizeString(Cell(row, s.columnOrder[i])),
                        normalizeString(s.searchQuery)))
  ELSE rows

\* stage 2: search over the visible columns
SearchStage(s, rows) ==
  IF s.searchQuery # ""
  THEN SelectSeq(rows, LAMBDA row :
         \E i \in DOMAIN s.visibleColumns :
            StrIncludes(normalizeString(Cell(row, s.visibleColumns[i])),
                        normalizeString(s.searchQuery)))
  ELSE rows

\* the stage with another sentinel
SentinelStageOtherValue(s, rows) ==
  IF s.hideUnknownMacros
  THEN SelectSeq(rows, LAMBDA row :
         parseFloat(Cell(row, "calories")) # Fin(UNKNOWN_MACROS + 1, 1))
  ELSE rows

\* stage 3: hide unknown macros
SentinelStage(s, rows) ==
  IF s.hideUnknownMacros
  THEN SelectSeq(rows, LAMBDA row :
         parseFloat(Cell(row, "calories")) # Fin(UNKNOWN_MACROS, 1))
  ELSE rows

\* the patterns of a contains / exclude list that survive .map(normalizeString).filter(Boolean)
NormalizedPatterns(patterns) ==
  {normalizeString(patterns[i]) : i \in DOMAIN patterns} \ {""}

\* a filter whose Equals box keeps the cells up to the value
PassesFilterAtMost(s, column, row) ==
  LET filter == s.filters[column]
      value == parseFloat(Cell(row, column))
      cell == normalizeString(Cell(row, column))
  IN  IF column \in DOMAIN s.columnTypes /\ s.columnTypes[column] = "number"
      THEN CASE filter.type = "equals" -> NumLe(value, filter.value)
             [] filter.type = "range" ->
                  /\ (Falsy(filter.min) \/ NumLe(filter.min, value))
                  /\ (Falsy(filter.max) \/ NumLe(value, filter.max))
             [] OTHER -> TRUE
      ELSE /\ \A pattern \in NormalizedPatterns(filter.contains) : StrIncludes(cell, pattern)
           /\ ~\E pattern \in NormalizedPatterns(filter.exclude) : StrIncludes(cell, pattern)

\* whether a row passes the filter of one column
PassesFilter(s, column, row) ==
  LET filter == s.filters[column]
      value == parseFloat(Cell(row, column))
      cell == normalizeString(Cell(row, column))
  IN  IF column \in DOMAIN s.columnTypes /\ s.columnTypes[column] = "number"
      THEN CASE filter.type = "equals" -> NumEq(value, filter.value)
             [] filter.type = "range" ->
                  /\ (Falsy(filter.min) \/ NumLe(filter.min, value))
                  /\ (Falsy(filter.max) \/ NumLe(value, filter.max))
             [] OTHER -> TRUE
      ELSE /\ \A pattern \in NormalizedPatterns(filter.contains) : StrIncludes(cell, pattern)
           /\ ~\E pattern \in NormalizedPatterns(filter.exclude) : StrIncludes(cell, pattern)

\* stage 4: column filters
FilterStage(s, rows) ==
  SelectSeq(rows, LAMBDA row : \A column \in DOMAIN s.filters : PassesFilter(s, column, row))

\* the rows before sorting
filteredData(s) == FilterStage(s, SentinelStage(s, SearchStage(s, CategoryStage(s))))

\* buildFormulaFn is non-null: a non-blank applied formula that compiles
HasFormulaFn(s) == Trim(s.appliedFormula) # "" /\ Compiles(s.appliedFormula)

\* isNaN(v) ? -Infinity : v
NaNAsNInf(v) == IF isNaN(v) THEN NInf ELSE v

\* the key the formula comparator sorts by
FormulaSortKey(s, row) == NaNAsNInf(EvalFormula(s.appliedFormula, row))

\* dir === 'asc' ? aNum - bNum : bNum - aNum
DirectedDifference(dir, aNum, bNum) ==
  IF dir = "asc" THEN NumSub(aNum, bNum) ELSE NumSub(bNum, aNum)

\* the formula comparator
FormulaCompare(s, a, b) ==
  DirectedDifference(s.formulaSortDir, FormulaSortKey(s, a), FormulaSortKey(s, b))

\* collation order of the characters the model's cells use (punctuation, digits, letters)
CollationOrder == " _-,;:!?.'()#/+~0123456789abcdefghijklmnopqrstuvwxyz"
CollationRank(c) ==
  IF \E i \in 1..Len(CollationOrder) : CharAt(CollationOrder, i) = c
  THEN CHOOSE i \in 1..Len(CollationOrder) : CharAt(CollationOrder, i) = c
  ELSE 0

\* lexicographic comparison of two strings by rank(c): -1, 0 or 1
RECURSIVE CompareBy(_, _, _)
CompareBy(a, b, caseLevel) ==
  LET rank(c) == IF caseLevel THEN (IF LowerChar(c) = c THEN 0 ELSE 1)
                 ELSE CollationRank(LowerChar(c))
  IN  IF Len(a) = 0 /\ Len(b) = 0 THEN 0
      ELSE IF Len(a) = 0 THEN -1
      ELSE IF Len(b) = 0 THEN 1
      ELSE IF rank(CharAt(a, 1)) < rank(CharAt(b, 1)) THEN -1
      ELSE IF rank(CharAt(a, 1)) > rank(CharAt(b, 1)) THEN 1
      ELSE CompareBy(SubSeq(a, 2, Len(a)), SubSeq(b, 2, Len(b)), caseLevel)

\* a.localeCompare(b): letters first without case, then lower case before upper case
localeCompare(a, b) ==
  IF CompareBy(a, b, FALSE) # 0 THEN CompareBy(a, b, FALSE) ELSE CompareBy(a, b, TRUE)

\* String(value)
StringOf(value) == IF value = UNDEFINED THEN "undefined" ELSE value

\* the column comparator on two cell values and their parseFloat
CompareValues(dir, aValue, bValue, aFloat, bFloat) ==
  IF ~isNaN(aFloat) /\ ~isNaN(bFloat)
  THEN DirectedDifference(dir, aFloat, bFloat)
  ELSE IF dir = "asc" THEN Fin(localeCompare(StringOf(aValue), StringOf(bValue)), 1)
       ELSE Fin(localeCompare(StringOf(bValue), StringOf(aValue)), 1)

\* the column comparator
ColumnCompare(s, a, b) ==
  CompareValues(s.sortConfig[1].direction,
                Cell(a, s.sortConfig[1].key), Cell(b, s.sortConfig[1].key),
                parseFloat(Cell(a, s.sortConfig[1].key)),
                parseFloat(Cell(b, s.sortConfig[1].key)))

\* which sort is active: the formula sort wins over the column sort
SortMode(s) ==
  IF HasFormulaFn(s) /\ s.formulaSortDir # NULL THEN "formula"
  ELSE IF s.sortConfig # <<>> THEN "column" ELSE "none"

SortCompare(s, mode, a, b) ==
  IF mode = "formula" THEN FormulaCompare(s, a, b) ELSE ColumnCompare(s, a, b)

\* an insertion that moves a row in front of the rows it compares equal to
RECURSIVE InsertRowPastEquals(_, _, _, _, _)
InsertRowPastEquals(s, mode, sorted, row, i) ==
  IF i >= 1 /\ Sign(SortCompare(s, mode, sorted[i], row)) >= 0
  THEN InsertRowPastEquals(s, mode, sorted, row, i - 1)
  ELSE SubSeq(sorted, 1, i) \o <<row>> \o SubSeq(sorted, i + 1, Len(sorted))

\* Array.prototype.sort with a comparator: a stable insertion sort; a comparator
\* result that is NaN counts as 0
RECURSIVE InsertRow(_, _, _, _, _)
InsertRow(s, mode, sorted, row, i) ==
  IF i >= 1 /\ Sign(SortCompare(s, mode, sorted[i], row)) > 0
  THEN InsertRow(s, mode, sorted, row, i - 1)
  ELSE SubSeq(sorted, 1, i) \o <<row>> \o SubSeq(sorted, i + 1, Len(sorted))

RECURSIVE SortRows(_, _, _, _)
SortRows(s, mode, rows, sorted) ==
  IF rows = <<>> THEN sorted
  ELSE SortRows(s, mode, Tail(rows), InsertRow(s, mode, sorted, Head(rows), Len(sorted)))

\* the sorting step of processedData
ApplySort(s, mode, rows) == IF mode = "none" THEN rows ELSE SortRows(s, mode, rows, <<>>)

\* processedData: filter, then sort
processedData(s) ==
  IF Len(s.data) = 0 THEN <<>> ELSE ApplySort(s, SortMode(s), filteredData(s))

\* Math.ceil(length / rowsPerPage)
CeilDiv(length, perPage) == (length + perPage - 1) \div perPage

totalPages(s) == CeilDiv(Len(processedData(s)), s.rowsPerPage)

\* a slice that also takes the first row of the next page
SliceOneMore(rows, startIndex, perPage) ==
  SubSeq(rows, startIndex + 1, Min(startIndex + perPage + 1, Len(rows)))

\* rows.slice(startIndex, startIndex + rowsPerPage)
Slice(rows, startIndex, perPage) ==
  SubSeq(rows, startIndex + 1, Min(startIndex + perPage, Len(rows)))

\* paginatedData
paginatedData(s) == Slice(processedData(s), (s.currentPage - 1) * s.rowsPerPage, s.rowsPerPage)

(***************************************************************************)
(* State.                                                                  *)
(***************************************************************************)
VARIABLES
  \* the Row Store: the rows of every file on the server
  store,
  \* requests in flight: dataset fetches (a bag of <<shop, file>>) and /api/csv-structure
  \* fetches, each with the values its continuation closed over
  inflight, structFetch,
  \* useCSVData: State
  structure, selectedShop, selectedFile, data, headers, loading, error,
  \* CSVViewer: useState / useRef
  visibleColumns, columnOrder, columnTypes, sortConfig, filters, searchQuery,
  currentPage, rowsPerPage, hideUnknownMacros, formulaInput, appliedFormula,
  formulaSortDir, formulaHistory, categoriesTree, selectedCategories,
  prevSelectedFileRef, prevHeadersRef,
  \* the title of the toast shown last
  lastToast,
  \* the last request of a caller to a row route, with its response
  rowResponse,
  \* CSVViewer: the state of the availability refresh, and the toasts it has added
  isRefreshingAvailability, refreshProcessed, refreshTotal, esRef, refreshToasts,
  \* the server's refresh requests in the order they were sent (esRef holds the index
  \* of a request, 0 for null), its map of running processes (the index of the
  \* process's request, 0 for no entry), and the cancel requests in flight
  jobs, activeProcesses, cancels

vars ==
  <<store, inflight, structFetch, structure, selectedShop, selectedFile, data, headers,
    loading, error, visibleColumns, columnOrder, columnTypes, sortConfig, filters,
    searchQuery, currentPage, rowsPerPage, hideUnknownMacros, formulaInput,
    appliedFormula, formulaSortDir, formulaHistory, categoriesTree, selectedCategories,
    prevSelectedFileRef, prevHeadersRef, lastToast, rowResponse,
    isRefreshingAvailability, refreshProcessed, refreshTotal, esRef, refreshToasts,
    jobs, activeProcesses, cancels>>

\* the current state as one record, for the handlers below
cur ==
  [store |-> store, inflight |-> inflight, structFetch |-> structFetch,
   structure |-> structure, selectedShop |-> selectedShop, selectedFile |-> selectedFile,
   data |-> data, headers |-> headers, loading |-> loading, error |-> error,
   visibleColumns |-> visibleColumns, columnOrder |-> columnOrder,
   columnTypes |-> columnTypes, sortConfig |-> sortConfig, filters |-> filters,
   searchQuery |-> searchQuery, currentPage |-> currentPage, rowsPerPage |-> rowsPerPage,
   hideUnknownMacros |-> hideUnknownMacros, formulaInput |-> formulaInput,
   appliedFormula |-> appliedFormula, formulaSortDir |-> formulaSortDir,
   formulaHistory |-> formulaHistory, categoriesTree |-> categoriesTree,
   selectedCategories |-> selectedCategories, prevSelectedFileRef |-> prevSelectedFileRef,
   prevHeadersRef |-> prevHeadersRef, lastToast |-> lastToast,
   rowResponse |-> rowResponse, isRefreshingAvailability |-> isRefreshingAvailability,
   refreshProcessed |-> refreshProcessed, refreshTotal |-> refreshTotal, esRef |-> esRef,
   refreshToasts |-> refreshToasts, jobs |-> jobs, activeProcesses |-> activeProcesses,
   cancels |-> cancels]

\* the next state is the record s
Commit(s) ==
  /\ store' = s.store /\ inflight' = s.inflight /\ structFetch' = s.structFetch
  /\ structure' = s.structure /\ selectedShop' = s.selectedShop
  /\ selectedFile' = s.selectedFile /\ data' = s.data /\ headers' = s.headers
  /\ loading' = s.loading /\ error' = s.error
  /\ visibleColumns' = s.visibleColumns /\ columnOrder' = s.columnOrder
  /\ columnTypes' = s.columnTypes /\ sortConfig' = s.sortConfig /\ filters' = s.filters
  /\ searchQuery' = s.searchQuery /\ currentPage' = s.currentPage
  /\ rowsPerPage' = s.rowsPerPage /\ hideUnknownMacros' = s.hideUnknownMacros
  /\ formulaInput' = s.formulaInput /\ appliedFormula' = s.appliedFormula
  /\ formulaSortDir' = s.formulaSortDir /\ formulaHistory' = s.formulaHistory
  /\ categoriesTree' = s.categoriesTree /\ selectedCategories' = s.selectedCategories
  /\ prevSelectedFileRef' = s.prevSelectedFileRef /\ prevHeadersRef' = s.prevHeadersRef
  /\ lastToast' = s.lastToast /\ rowResponse' = s.rowResponse
  /\ isRefreshingAvailability' = s.isRefreshingAvailability
  /\ refreshProcessed' = s.refreshProcessed /\ refreshTotal' = s.refreshTotal
  /\ esRef' = s.esRef /\ refreshToasts' = s.refreshToasts
  /\ jobs' = s.jobs /\ activeProcesses' = s.activeProcesses /\ cancels' = s.cancels

\* the empty map {}
EmptyMap == [c \in {} |-> NULL]

\* a request to a row route and the response its caller received; opened is the url of
\* the row whose menu sent it, NULL for another client of the API
RowResponse(method, ds, opened, url, body, status) ==
  [method |-> method, ds |-> ds, opened |-> opened, url |-> url, body |-> body,
   status |-> status]
\* no request yet
NoRowResponse == RowResponse(NULL, <<NULL, NULL>>, NULL, NULL, EmptyMap, 0)


(***************************************************************************)
(* useCSVData: the reducer, one operator per action type.                  *)
(***************************************************************************)
\* Object.keys(structure)[0] and structure[shop][0]
FirstShop(struct) ==
  IF DOMAIN struct = {} THEN NULL
  ELSE Shops[CHOOSE i \in DOMAIN Shops :
               Shops[i] \in DOMAIN struct /\ \A j \in 1..(i - 1) : Shops[j] \notin DOMAIN struct]
FirstFile(struct, shop) ==
  IF shop # NULL /\ shop \in DOMAIN struct /\ Len(struct[shop]) > 0
  THEN struct[shop][1] ELSE NULL

SET_STRUCTURE(s, payload) ==
  LET newShop == IF s.selectedShop = NULL \/ s.selectedShop \notin DOMAIN payload
                 THEN FirstShop(payload) ELSE s.selectedShop
  IN  [s EXCEPT !.structure = payload, !.selectedShop = newShop,
                !.selectedFile = FirstFile(payload, newShop)]

SET_SHOP(s, shop) ==
  [s EXCEPT !.selectedShop = shop, !.selectedFile = FirstFile(s.structure, shop),
            !.data = <<>>, !.headers = <<>>, !.error = NULL]

SET_FILE(s, file) ==
  [s EXCEPT !.selectedFile = file, !.data = <<>>, !.headers = <<>>, !.error = NULL]

SET_LOADING(s, payload) == [s EXCEPT !.loading = payload]

SET_ERROR(s, payload) == [s EXCEPT !.error = payload, !.loading = FALSE]

SET_DATA(s, rows, hdrs) ==
  [s EXCEPT !.data = rows, !.headers = hdrs, !.loading = FALSE, !.error = NULL]

CLEAR_DATA(s) == [s EXCEPT !.data = <<>>, !.headers = <<>>, !.error = NULL]

\* state.structure[shop]?.includes(file), with the structure the callback closed over
ValidCombination(struct, shop, file) == shop \in DOMAIN struct /\ Includes(struct[shop], file)

\* fetchCSVData up to its await: the dispatches and the request sent
fetchCSVData(s, struct, shop, file) ==
  IF ~ValidCombination(struct, shop, file)
  THEN SET_ERROR(s, "Invalid shop/file combination")
  ELSE [SET_ERROR(SET_LOADING(s, TRUE), NULL)
          EXCEPT !.inflight = s.inflight (+) SetToBag({Dataset(shop, file)})]

\* refreshData, with the selection and the structure the callback closed over
refreshData(s, struct, shop, file) ==
  IF shop # NULL /\ file # NULL THEN fetchCSVData(s, struct, shop, file) ELSE s

(***************************************************************************)
(* CSVViewer: the handlers, as functions of the state.                     *)
(***************************************************************************)
\* the three parts of the default column order for a header list
ShownColumns(hdrs) == SelectSeq(SHOWN_BY_DEFAULT_COLUMNS, LAMBDA col : Includes(hdrs, col))
HiddenToggleColumns(hdrs) == SelectSeq(HIDDEN_BY_DEFAULT_COLUMNS, LAMBDA col : Includes(hdrs, col))
RemainderColumns(hdrs) ==
  SelectSeq(hdrs, LAMBDA h : ~Includes(ShownColumns(hdrs), h)
                              /\ ~Includes(HiddenToggleColumns(hdrs), h))
DefaultVisibleColumns(hdrs) == ShownColumns(hdrs)
DefaultColumnOrder(hdrs) ==
  ShownColumns(hdrs) \o HiddenToggleColumns(hdrs) \o RemainderColumns(hdrs)

\* handleReset, with the headers and the category tree the callback closed over
handleReset(s, hdrs, tree) ==
  [s EXCEPT !.sortConfig = <<>>, !.formulaSortDir = NULL, !.formulaInput = "",
            !.appliedFormula = "", !.filters = EmptyMap, !.searchQuery = "",
            !.currentPage = 1, !.hideUnknownMacros = TRUE,
            !.visibleColumns = IF Len(hdrs) > 0 THEN DefaultVisibleColumns(hdrs) ELSE @,
            !.columnOrder = IF Len(hdrs) > 0 THEN DefaultColumnOrder(hdrs) ELSE @,
            !.selectedCategories = Range(collectPaths(tree))]

\* the columns a formula names that are not headers
MissingCols(formula, hdrs) ==
  SelectSeq(QuotedRefs(formula), LAMBDA col : ~Includes(hdrs, col))

\* why validateAndApplyFormula rejects a (trimmed) formula, NULL when it accepts it
RejectionToast(formula, hdrs, rows) ==
  IF Len(MissingCols(formula, hdrs)) > 0 THEN "Unknown column(s)"
  ELSE IF DivByZeroLiteral(StripQuoted(formula)) THEN "Division by zero"
  ELSE IF ~Compiles(formula) THEN "Invalid formula syntax"
  ELSE IF Len(rows) > 0 /\ isNaN(EvalFormula(formula, rows[1])) THEN "Formula result is NaN"
  ELSE NULL

\* a rejection that also drops the formula sort
RejectOrApplyDropsSort(s, formula, toast) ==
  IF toast # NULL THEN [s EXCEPT !.lastToast = toast, !.formulaSortDir = NULL]
  ELSE [s EXCEPT !.formulaInput = formula, !.appliedFormula = formula,
                 !.formulaSortDir = NULL, !.lastToast = "Formula applied"]

\* the end of validateAndApplyFormula: the error toast, or the three setters and the
\* success toast
RejectOrApply(s, formula, toast) ==
  IF toast # NULL THEN [s EXCEPT !.lastToast = toast]
  ELSE [s EXCEPT !.formulaInput = formula, !.appliedFormula = formula,
                 !.formulaSortDir = NULL, !.lastToast = "Formula applied"]

validateAndApplyFormula(s) ==
  IF Trim(s.formulaInput) = "" THEN s
  ELSE RejectOrApply(s, Trim(s.formulaInput),
                     RejectionToast(Trim(s.formulaInput), s.headers, s.data))

\* the click on an entry of the formula history
applyFormulaFromHistory(s, f) ==
  [s EXCEPT !.formulaInput = f, !.appliedFormula = f, !.lastToast = "Formula applied"]

\* addFormulaToHistory
addFormulaToHistory(history, f) ==
  LET updated == <<f>> \o SelectSeq(history, LAMBDA x : x # f)
  IN  SubSeq(updated, 1, Min(Len(updated), FORMULA_HISTORY_SIZE))

handleSort(s, column) ==
  [s EXCEPT !.formulaSortDir = NULL,
            !.sortConfig =
               IF @ # <<>> /\ @[1].key = column
               THEN IF @[1].direction = "asc"
                    THEN <<[key |-> column, direction |-> "desc"]>>
                    ELSE <<>>
               ELSE <<[key |-> column, direction |-> "asc"]>>]

\* applyFormulaSort without setSortConfig(null)
applyFormulaSortKeepsColumnSort(s, dir) ==
  IF Trim(s.appliedFormula) = "" THEN s
  ELSE [s EXCEPT !.formulaSortDir = dir]

applyFormulaSort(s, dir) ==
  IF Trim(s.appliedFormula) = "" THEN s
  ELSE [s EXCEPT !.formulaSortDir = dir, !.sortConfig = <<>>]

clearFormulaSort(s) == [s EXCEPT !.formulaSortDir = NULL]

\* handleColumnVisibilityChange; the sort by columnOrder.indexOf lists the visible
\* columns in the order of columnOrder (every visible column is in columnOrder)
handleColumnVisibilityChange(s, column, isVisible) ==
  [s EXCEPT !.visibleColumns =
     IF isVisible
     THEN SelectSeq(s.columnOrder, LAMBDA col : Includes(@, col) \/ col = column)
     ELSE SelectSeq(@, LAMBDA col : col # column)]

handleSearchChange(s, query) == [s EXCEPT !.searchQuery = query, !.currentPage = 1]

\* handleFilterChange; filter is <<>> for undefined, <<f>> for a filter f
handleFilterChange(s, column, filter) ==
  [s EXCEPT !.currentPage = 1,
            !.filters =
               IF filter = <<>> THEN [c \in DOMAIN @ \ {column} |-> @[c]]
               ELSE [c \in DOMAIN @ \cup {column} |-> IF c = column THEN filter[1] ELSE @[c]]]

handlePageChange(s, page) == [s EXCEPT !.currentPage = page]

handleRowsPerPageChange(s, rows) == [s EXCEPT !.rowsPerPage = rows, !.currentPage = 1]

\* Pagination.handlePrevious / handleNext over the props of the current render
handlePrevious(s) ==
  IF s.currentPage > 1 THEN handlePageChange(s, s.currentPage - 1) ELSE s
handleNext(s, pages) ==
  IF s.currentPage < pages THEN handlePageChange(s, s.currentPage + 1) ELSE s

(***************************************************************************)
(* FilterPanel: the handlers behind the boxes of a column.                 *)
(***************************************************************************)
\* the bound the other box of a range holds: filters[column].min / .max of a range
\* filter, null otherwise
StoredBound(s, column, box) ==
  IF column \in DOMAIN s.filters /\ s.filters[column].type = "range"
  THEN s.filters[column][box] ELSE NullNum

\* parseFloat of a stored bound: parseFloat(null) is NaN, a number parses to itself
ParseStored(x) == IF x.k = "null" THEN NaN ELSE x

\* x === '' ? null : parseFloat(x), for the text of the box that was edited
ParseText(text) == IF text = "" THEN NullNum ELSE parseFloat(text)

\* handleNumberFilterChange: box is "value" for the Equals box, "min" or "max" for
\* a box of the Range, text what the box holds after the edit
handleNumberFilterChange(s, column, box, text) ==
  IF box = "value"
  THEN IF text = "" THEN handleFilterChange(s, column, <<>>)
       ELSE handleFilterChange(s, column, <<NumberEquals(parseFloat(text))>>)
  ELSE IF text = "" /\ Falsy(StoredBound(s, column, IF box = "min" THEN "max" ELSE "min"))
       THEN handleFilterChange(s, column, <<>>)
       ELSE IF box = "min"
            THEN handleFilterChange(s, column,
                   <<NumberRange(ParseText(text), ParseStored(StoredBound(s, column, "max")))>>)
            ELSE handleFilterChange(s, column,
                   <<NumberRange(ParseStored(StoredBound(s, column, "min")), ParseText(text))>>)

\* the patterns a field of the column's filter holds
ExistingPatterns(s, column, field) ==
  IF column \in DOMAIN s.filters THEN s.filters[column][field] ELSE <<>>

\* addPattern: Enter in the Contains / Exclude box of a string column
addPattern(s, column, field, pattern) ==
  IF Trim(pattern) = "" \/ Includes(ExistingPatterns(s, column, field), Trim(pattern)) THEN s
  ELSE IF field = "contains"
       THEN handleFilterChange(s, column,
              <<StringFilter(Append(ExistingPatterns(s, column, "contains"), Trim(pattern)),
                             ExistingPatterns(s, column, "exclude"))>>)
       ELSE handleFilterChange(s, column,
              <<StringFilter(ExistingPatterns(s, column, "contains"),
                             Append(ExistingPatterns(s, column, "exclude"), Trim(pattern)))>>)

(***************************************************************************)
(* The effects.  Every action below ends with the effects its state        *)
(* changes trigger, in the order React runs them; s0 is the state of the   *)
(* previous render.                                                        *)
(***************************************************************************)
\* useCSVData: fetch data when shop/file combination (or fetchCSVData, with the
\* structure) changes
FetchEffect(s0, s, structureChanged) ==
  IF ~(structureChanged \/ s0.selectedShop # s.selectedShop
         \/ s0.selectedFile # s.selectedFile)
  THEN s
  ELSE IF s.selectedShop = NULL \/ s.selectedFile = NULL THEN CLEAR_DATA(s)
  ELSE IF ValidCombination(s.structure, s.selectedShop, s.selectedFile)
       THEN fetchCSVData(s, s.structure, s.selectedShop, s.selectedFile)
       ELSE SET_ERROR(s, "Invalid shop/file combination")

\* CSVViewer: update visible columns when headers change
HeadersEffect(s) ==
  IF Len(s.headers) = 0 THEN s
  ELSE IF Join(s.prevHeadersRef, "|") = Join(s.headers, "|") THEN s
  ELSE [s EXCEPT !.visibleColumns = DefaultVisibleColumns(s.headers),
                 !.columnOrder = DefaultColumnOrder(s.headers),
                 !.columnTypes =
                    [h \in Range(s.headers) |->
                       IF Includes(NUMERIC_COLUMNS, normalizeHeader(h))
                       THEN "number" ELSE "string"],
                 !.prevHeadersRef = s.headers]

\* CSVViewer: build categories tree whenever data (or headers, or selectedFile) changes
CategoryEffect(s0, s, dataChanged) ==
  IF ~(dataChanged \/ s0.selectedFile # s.selectedFile) THEN s
  ELSE IF Len(s.data) = 0 \/ Len(s.headers) = 0 THEN s
  ELSE LET built == buildTree(s.data)
       IN  IF s.selectedFile # s.prevSelectedFileRef
           THEN [s EXCEPT !.categoriesTree = built.tree,
                          !.prevSelectedFileRef = s.selectedFile,
                          !.selectedCategories = Range(built.allPaths)]
           ELSE [s EXCEPT !.categoriesTree = built.tree,
                          !.selectedCategories = reconcileSelection(@, built.allPaths)]

\* CSVViewer: save history when formula applied successfully
HistoryEffect(s0, s) ==
  IF s.appliedFormula # s0.appliedFormula /\ s.appliedFormula # ""
  THEN [s EXCEPT !.formulaHistory = addFormulaToHistory(@, s.appliedFormula)]
  ELSE s

\* a page effect that never moves the page
ClampPageOff(s, pages) == s

\* if (currentPage > totalPages && totalPages > 0) setCurrentPage(Math.max(1, totalPages))
ClampPage(s, pages) ==
  IF s.currentPage > pages /\ pages > 0 THEN [s EXCEPT !.currentPage = Max(1, pages)] ELSE s

\* CSVViewer: adjust current page if it becomes invalid due to data changes
PageEffect(s) == ClampPage(s, totalPages(s))

Effects(s0, s, structureChanged, dataChanged) ==
  PageEffect(HistoryEffect(s0,
    CategoryEffect(s0, HeadersEffect(FetchEffect(s0, s, structureChanged)), dataChanged)))

(***************************************************************************)
(* What the viewer renders.                                                *)
(***************************************************************************)
\* CSVViewer returns the error screen in place of the page when error is set;
\* otherwise DataTable shows a spinner, "No data found" or the table
Screen(s) ==
  IF s.error # NULL THEN "error"
  ELSE IF s.loading /\ Len(s.data) = 0 THEN "spinner"
  ELSE IF Len(paginatedData(s)) = 0 THEN "no data"
  ELSE "table"

(***************************************************************************)
(* Inputs of the operator's actions.                                       *)
(***************************************************************************)
SearchQueries == {"", "green tea"}
SortColumns == {"price"}
FilterInputs ==
  { <<"price", <<NumberRange(Fin(5, 1), NullNum)>> >>,
    <<"name", <<StringFilter(<<"e">>, <<>>)>> >>,
    <<"price", <<>> >>, <<"name", <<>> >> }
Formulas ==
  { "\"calories\"/\"price\"", " \"calories\" ", "\"fat\"+1", "\"calories\"/0",
    "\"calories\"/", "\"name\"/\"name\"" }
\* formulas that divide: by the constant 0, by constants that start with the digit 0,
\* by another constant and by a column
DivisionFormulas ==
  { "\"calories\"/0", "\"calories\"/ 0", "\"calories\"/0.5", "\"calories\"/05",
    "\"calories\"/10", "\"calories\"/\"calories\"", "1/0+\"calories\"" }
ToggleColumns == {"name"}
EditCategories == {"Snacks", "Bakery#Bread"}
\* edits of the number boxes of the filter panel: <<column, box, text>>
NumberBoxEdits ==
  { <<"price", "value", "10">>, <<"price", "min", "0">>, <<"price", "max", "10">>,
    <<"price", "min", "">> }
\* patterns entered in the Contains / Exclude boxes: <<column, field, pattern>>
PatternInputs ==
  { <<"name", "contains", "a">>, <<"name", "contains", " o ">>, <<"name", "exclude", "l">> }
\* two of the page sizes Pagination offers
RowsPerPageOptions == {5, 10}

(***************************************************************************)
(* Initial state: the hook's initialState and the viewer's useState        *)
(* defaults, with the structure fetch of the mount effect in flight.       *)
(***************************************************************************)
MountFetch ==
  [reload |-> FALSE, shop |-> NULL, file |-> NULL, structure |-> <<>>,
   headers |-> <<>>, tree |-> <<>>]

Init ==
  /\ store = InitialStore
  /\ inflight = EmptyBag
  /\ structFetch = {MountFetch}
  /\ structure = <<>> /\ selectedShop = NULL /\ selectedFile = NULL
  /\ data = <<>> /\ headers = <<>> /\ loading = TRUE /\ error = NULL
  /\ visibleColumns = <<>> /\ columnOrder = <<>> /\ columnTypes = EmptyMap
  /\ sortConfig = <<>> /\ filters = EmptyMap /\ searchQuery = ""
  /\ currentPage = 1 /\ rowsPerPage = DEFAULT_ROWS_PER_PAGE
  /\ hideUnknownMacros = TRUE
  /\ formulaInput = "" /\ appliedFormula = "" /\ formulaSortDir = NULL
  /\ formulaHistory = <<>>
  /\ categoriesTree = <<>> /\ selectedCategories = {}
  /\ prevSelectedFileRef = NULL /\ prevHeadersRef = <<>>
  /\ lastToast = NULL /\ rowResponse = NoRowResponse
  /\ isRefreshingAvailability = FALSE /\ refreshProcessed = 0 /\ refreshTotal = 0
  /\ esRef = 0 /\ refreshToasts = <<>>
  /\ jobs = <<>> /\ activeProcesses = [key \in Datasets |-> 0] /\ cancels = EmptyBag

(***************************************************************************)
(* Actions of the hook and the network.                                    *)
(***************************************************************************)
\* a step that issues fetches is taken only while the bound on requests in flight allows
WithinBounds(s) == BagCardinality(s.inflight) <= MaxInflight

\* the render that follows a handler: the next state is s, when within the bounds
CommitWithin(s) == WithinBounds(s) /\ Commit(s)

\* the response of the mount's fetchStructure arrives
StructureArrives ==
  \E req \in structFetch :
    /\ ~req.reload
    /\ LET s1 == SET_LOADING(SET_STRUCTURE([cur EXCEPT !.structFetch = @ \ {req}],
                                           ServerStructure), FALSE)
           s2 == Effects(cur, s1, TRUE, FALSE)
       IN  CommitWithin(s2)

\* the Reload button (disabled during an availability refresh): refreshAll() starts
\* with fetchStructure()
Reload ==
  /\ error = NULL /\ ~isRefreshingAvailability
  /\ structFetch = {}
  /\ Commit([SET_LOADING(cur, TRUE) EXCEPT !.structFetch =
       {[reload |-> TRUE, shop |-> selectedShop, file |-> selectedFile,
         structure |-> structure, headers |-> headers, tree |-> categoriesTree]}])

\* the structure response of a Reload arrives: SET_STRUCTURE, then the click's
\* refreshData() and handleReset() (both closed over the state at the click), then
\* the effects of the one render that follows
ReloadArrives ==
  \E req \in structFetch :
    /\ req.reload
    /\ LET s1 == SET_LOADING(SET_STRUCTURE([cur EXCEPT !.structFetch = @ \ {req}],
                                           ServerStructure), FALSE)
           s2 == refreshData(s1, req.structure, req.shop, req.file)
           s3 == handleReset(s2, req.headers, req.tree)
           s4 == Effects(cur, s3, TRUE, FALSE)
       IN  CommitWithin(s4)

\* the render after setSelectedShop(shop), setSelectedFile(file), and after the
\* response of the fetch of dataset ds: the reducer, then the effects
selectShop(s, shop) == Effects(s, SET_SHOP(s, shop), FALSE, TRUE)
selectFile(s, file) == Effects(s, SET_FILE(s, file), FALSE, TRUE)
receiveData(s, ds) ==
  Effects(s, SET_DATA([s EXCEPT !.inflight = @ (-) SetToBag({ds})],
                      s.store[ds], StoreHeaders(ds)),
          FALSE, TRUE)

\* ShopSelector: a click on a shop
SetShop ==
  /\ error = NULL
  /\ \E shop \in DOMAIN structure : CommitWithin(selectShop(cur, shop))

\* FileSelector (rendered while the hook is not loading): a click on a file
SetFile ==
  /\ error = NULL /\ ~loading /\ selectedShop \in DOMAIN structure
  /\ \E file \in Range(structure[selectedShop]) : CommitWithin(selectFile(cur, file))

\* the response of a dataset fetch arrives, whatever was requested since
DataArrives == \E ds \in BagToSet(inflight) : Commit(receiveData(cur, ds))

\* a dataset fetch fails
DataFails ==
  \E ds \in BagToSet(inflight) :
    Commit(Effects(cur, SET_ERROR([cur EXCEPT !.inflight = @ (-) SetToBag({ds})],
                                  "Failed to fetch CSV data"), FALSE, FALSE))

(***************************************************************************)
(* The server's row routes and the row menu that calls them.               *)
(***************************************************************************)
\* canonicalUrl: the query string and one trailing slash removed
canonicalUrl(u) ==
  LET noQuery == IF u = "" THEN "" ELSE Split(u, "?")[1]
  IN  IF noQuery # "" /\ CharAt(noQuery, Len(noQuery)) = "/"
      THEN SubSeq(noQuery, 1, Len(noQuery) - 1) ELSE noQuery

\* decodeURIComponent, on the urls of the model, which hold no escape sequence
decodeURIComponent(u) == u

\* records.findIndex: the first of the indices that pass the test, 0 for JavaScript's -1
FindIndex(passing) ==
  IF passing = {} THEN 0 ELSE CHOOSE i \in passing : \A j \in passing : i <= j

\* the by-url lookup of the PUT route
PutIndex(rows, queryUrl) ==
  FindIndex({i \in DOMAIN rows :
               rows[i].url = queryUrl \/ rows[i].url = decodeURIComponent(queryUrl)})

\* the by-url lookup of the DELETE route
DeleteIndex(rows, queryUrl) ==
  FindIndex({i \in DOMAIN rows :
               \/ canonicalUrl(rows[i].url) = canonicalUrl(queryUrl)
               \/ canonicalUrl(rows[i].url) = canonicalUrl(decodeURIComponent(queryUrl))})

\* DELETE /api/csv-data/row/by-url: records.splice(index, 1)
DeleteByUrl(rows, url) ==
  LET index == DeleteIndex(rows, url)
  IN  SubSeq(rows, 1, index - 1) \o SubSeq(rows, index + 1, Len(rows))

\* PUT /api/csv-data/row/by-url: records[index] = { ...records[index], ...rowData },
\* written back under the headers of the file
UpdateByUrl(rows, url, rowData) ==
  LET index == PutIndex(rows, url)
  IN  [rows EXCEPT ![index] = [h \in DOMAIN @ |-> IF h \in DOMAIN rowData THEN rowData[h] ELSE @[h]]]

\* the status of the two routes: 400 without a url, 404 when the lookup finds no row
PutStatus(rows, queryUrl) ==
  IF queryUrl = "" THEN 400 ELSE IF PutIndex(rows, queryUrl) = 0 THEN 404 ELSE 200
DeleteStatus(rows, queryUrl) ==
  IF queryUrl = "" THEN 400 ELSE IF DeleteIndex(rows, queryUrl) = 0 THEN 404 ELSE 200

\* the number of rows the model has deleted or rewritten, over all files
RECURSIVE SumOver(_, _)
SumOver(f, S) ==
  IF S = {} THEN 0 ELSE LET x == CHOOSE x \in S : TRUE IN f[x] + SumOver(f, S \ {x})
Writes(st) ==
  SumOver([ds \in Datasets |->
             (Len(InitialStore[ds]) - Len(st[ds]))
               + Cardinality({i \in DOMAIN st[ds] : st[ds][i] \notin Range(InitialStore[ds])})],
          Datasets)

\* whether the file holds a row with the url
HasUrl(rows, url) == \E j \in DOMAIN rows : rows[j].url = url

\* RowActionsMenu.handleDeleteConfirm on the row rowData, then onDataChange()
handleDeleteConfirm(s, rowData) ==
  LET ds == Dataset(s.selectedShop, s.selectedFile)
      status == DeleteStatus(s.store[ds], rowData.url)
      s1 == [s EXCEPT !.rowResponse =
               RowResponse("DELETE", ds, rowData.url, rowData.url, EmptyMap, status)]
  IN  IF status = 200
      THEN refreshData([s1 EXCEPT !.store[ds] = DeleteByUrl(@, rowData.url)],
                       s.structure, s.selectedShop, s.selectedFile)
      ELSE s1

\* RowActionsMenu.handleEditSave on the row rowData with the form's updatedData, then
\* onDataChange(): the request carries updatedData.url
handleEditSave(s, rowData, updatedData) ==
  LET ds == Dataset(s.selectedShop, s.selectedFile)
      status == PutStatus(s.store[ds], updatedData.url)
      s1 == [s EXCEPT !.rowResponse =
               RowResponse("PUT", ds, rowData.url, updatedData.url, updatedData, status)]
  IN  IF status = 200
      THEN refreshData([s1 EXCEPT !.store[ds] = UpdateByUrl(@, updatedData.url, updatedData)],
                       s.structure, s.selectedShop, s.selectedFile)
      ELSE s1

\* the operator confirms the deletion of a row of the table
DeleteRow ==
  /\ error = NULL /\ Dataset(selectedShop, selectedFile) \in Datasets
  /\ Writes(store) < MaxWrites
  /\ \E rowData \in Range(paginatedData(cur)) :
       /\ DeleteStatus(store[Dataset(selectedShop, selectedFile)], rowData.url) = 200
       /\ CommitWithin(Effects(cur, handleDeleteConfirm(cur, rowData), FALSE, FALSE))

\* the operator saves the edit form of a row of the table with a new category
EditRow ==
  /\ error = NULL /\ Dataset(selectedShop, selectedFile) \in Datasets
  /\ Writes(store) < MaxWrites
  /\ \E rowData \in Range(paginatedData(cur)), category \in EditCategories :
       /\ PutStatus(store[Dataset(selectedShop, selectedFile)], rowData.url) = 200
       /\ CommitWithin(Effects(cur,
            handleEditSave(cur, rowData, [rowData EXCEPT !.category = category]),
            FALSE, FALSE))

\* the urls the operator types into the url field of the edit form: the url of another
\* row of the table, or the row's own url with another query string
UrlEdits(s, rowData) ==
  ({r.url : r \in Range(s.data)} \ {rowData.url}) \cup {canonicalUrl(rowData.url) \o "?v=2"}

\* the operator saves the edit form of a row of the table with a new url
EditUrl ==
  /\ error = NULL /\ Dataset(selectedShop, selectedFile) \in Datasets
  /\ Writes(store) < MaxWrites
  /\ \E rowData \in Range(paginatedData(cur)) :
       \E url \in UrlEdits(cur, rowData) :
         CommitWithin(Effects(cur,
           handleEditSave(cur, rowData, [rowData EXCEPT !.url = url]), FALSE, FALSE))

\* the urls another client of the API asks for: the urls of the file, their canonical
\* forms with and without a trailing slash or a query string, and a url of no row
RequestUrls(rows) ==
  UNION {{r.url, canonicalUrl(r.url), canonicalUrl(r.url) \o "/",
          canonicalUrl(r.url) \o "?v=9"} : r \in Range(rows)} \cup {"http://b/9"}

\* PUT /api/csv-data/row/by-url with a partial record
PutRequest ==
  /\ Writes(store) < MaxRowWrites
  /\ \E ds \in Datasets, category \in EditCategories :
       \E url \in RequestUrls(store[ds]) :
         LET status == PutStatus(store[ds], url)
             body == [category |-> category]
         IN  Commit([cur EXCEPT
               !.rowResponse = RowResponse("PUT", ds, NULL, url, body, status),
               !.store[ds] = IF status = 200 THEN UpdateByUrl(@, url, body) ELSE @])

\* DELETE /api/csv-data/row/by-url
DeleteRequest ==
  /\ Writes(store) < MaxRowWrites
  /\ \E ds \in Datasets :
       \E url \in RequestUrls(store[ds]) :
         LET status == DeleteStatus(store[ds], url)
         IN  Commit([cur EXCEPT
               !.rowResponse = RowResponse("DELETE", ds, NULL, url, EmptyMap, status),
               !.store[ds] = IF status = 200 THEN DeleteByUrl(@, url) ELSE @])

(***************************************************************************)
(* The availability refresh: the server's route, the script it runs, the   *)
(* event stream, and the viewer's handlers.                                *)
(***************************************************************************)
\* String(n) of a natural number
RECURSIVE NatString(_)
NatString(n) == IF n < 10 THEN Digits[n + 1] ELSE NatString(n \div 10) \o Digits[(n % 10) + 1]

\* the messages of the stream
StartMsg(total) == [type |-> "start", total |-> total]
ProgressMsg(processed, total) == [type |-> "progress", processed |-> processed, total |-> total]
DoneMsg == [type |-> "done"]
ErrorMsg(message) == [type |-> "error", message |-> message]

\* the messages of the server's error events
VersionCheckFailed == "Python version check failed. Please ensure python3 is installed correctly."
ScriptFailed(code) == "Python script failed (code " \o code \o "): Unknown error"

\* JSON.stringify of a message
JSONStringify(msg) ==
  CASE msg.type = "start" ->
         "{" \o QUOTE \o "type" \o QUOTE \o ":" \o QUOTE \o "start" \o QUOTE \o ","
             \o QUOTE \o "total" \o QUOTE \o ":" \o NatString(msg.total) \o "}"
    [] msg.type = "progress" ->
         "{" \o QUOTE \o "type" \o QUOTE \o ":" \o QUOTE \o "progress" \o QUOTE \o ","
             \o QUOTE \o "processed" \o QUOTE \o ":" \o NatString(msg.processed) \o ","
             \o QUOTE \o "total" \o QUOTE \o ":" \o NatString(msg.total) \o "}"
    [] msg.type = "done" ->
         "{" \o QUOTE \o "type" \o QUOTE \o ":" \o QUOTE \o "done" \o QUOTE \o "}"
    [] msg.type = "error" ->
         "{" \o QUOTE \o "type" \o QUOTE \o ":" \o QUOTE \o "error" \o QUOTE \o ","
             \o QUOTE \o "message" \o QUOTE \o ":" \o QUOTE \o msg.message \o QUOTE \o "}"

\* res.write(`data: ${JSON.stringify(msg)}\n\n`)
Event(msg) == "data: " \o JSONStringify(msg) \o "\n\n"

\* the messages a stream can carry
Messages ==
  {StartMsg(n) : n \in 0..MaxTotal}
    \cup {ProgressMsg(k, n) : k \in 1..MaxTotal, n \in 0..MaxTotal}
    \cup {DoneMsg}
    \cup {ErrorMsg(m) : m \in {VersionCheckFailed, ScriptFailed("1"), ScriptFailed("null")}}

\* JSON.parse of a line's payload: the message it is the text of; a SyntaxError for
\* any other text (a part of an object's text is not JSON)
SyntaxError == [type |-> "SyntaxError"]
JSONParse(text) ==
  IF \E m \in Messages : JSONStringify(m) = text
  THEN CHOOSE m \in Messages : JSONStringify(m) = text
  ELSE SyntaxError

\* a refresh request: what the client sent and closed over, the state of the route's
\* closure on the server (stage, records, processed, the text written to the response),
\* the script's position, and the client's XMLHttpRequest (buffer length, state)
NewJob(key, urls, struct, shop, file) ==
  [key |-> key, urls |-> urls, structure |-> struct, shop |-> shop, file |-> file,
   stage |-> "sent", status |-> 0, headers |-> <<>>, records |-> <<>>, printed |-> 0,
   processed |-> 0, text |-> "", buffer |-> 0, xhr |-> "open"]

\* addToast of the refresh handlers
addToast(s, type, title) ==
  [s EXCEPT !.refreshToasts = Append(@, [type |-> type, title |-> title])]

\* handleRefreshAvailability
handleRefreshAvailability(s) ==
  IF \/ s.selectedShop = NULL \/ s.selectedFile = NULL
     \/ s.isRefreshingAvailability \/ Len(s.data) = 0
  THEN s
  ELSE LET rows == processedData(s)
       IN  [s EXCEPT !.isRefreshingAvailability = TRUE,
                     !.refreshProcessed = 0,
                     !.refreshTotal = Len(rows),
                     !.jobs = Append(@, NewJob(Dataset(s.selectedShop, s.selectedFile),
                                               [i \in DOMAIN rows |-> rows[i].url],
                                               s.structure, s.selectedShop, s.selectedFile)),
                     !.esRef = Len(s.jobs) + 1]

\* xhr.onprogress, one parsed message
onMessage(s, job, msg) ==
  CASE msg.type = "start" -> [s EXCEPT !.refreshTotal = msg.total]
    [] msg.type = "progress" -> [s EXCEPT !.refreshProcessed = msg.processed]
    [] msg.type = "done" ->
         refreshData(addToast([s EXCEPT !.isRefreshingAvailability = FALSE],
                              "success", "Availability updated"),
                     job.structure, job.shop, job.file)
    [] msg.type = "error" ->
         addToast([s EXCEPT !.isRefreshingAvailability = FALSE], "error", msg.message)
    [] OTHER -> s

\* xhr.onprogress, the loop over the lines of the new data
RECURSIVE onLines(_, _, _)
onLines(s, job, lines) ==
  IF lines = <<>> THEN s
  ELSE LET line == Head(lines)
           msg == IF StartsWith(line, "data: ") THEN JSONParse(SubSeq(line, 7, Len(line)))
                  ELSE SyntaxError
       IN  onLines(onMessage(s, job, msg), job, Tail(lines))

\* newData.split('\n'): the stretches of s between its line feeds
Lines(s) ==
  LET feeds == {i \in 1..Len(s) : CharAt(s, i) = "\n"}
      starts == {1} \cup {i + 1 : i \in feeds}
      Start(k) == CHOOSE st \in starts : Cardinality({x \in starts : x < st}) = k - 1
      End(st) == IF \E i \in feeds : i >= st
                 THEN (CHOOSE i \in feeds : i >= st /\ \A j \in feeds : j >= st => i <= j) - 1
                 ELSE Len(s)
  IN  [k \in 1..Cardinality(starts) |-> SubSeq(s, Start(k), End(Start(k)))]

\* xhr.onprogress when the response text has grown to its first n characters
onprogress(s, id, n) ==
  LET job == s.jobs[id]
      newData == SubSeq(job.text, job.buffer + 1, n)
  IN  [onLines(s, job, Lines(newData)) EXCEPT !.jobs[id].buffer = n]

\* xhr.onreadystatechange at readyState 4
onreadystatechange(s, status) ==
  IF status # 200
  THEN addToast([s EXCEPT !.isRefreshingAvailability = FALSE],
                "error", "Failed to refresh availability")
  ELSE s

\* xhr.onerror
onerror(s) ==
  addToast([s EXCEPT !.isRefreshingAvailability = FALSE],
           "error", "Failed to refresh availability")

\* handleCancelRefresh: abort() of a request that has not ended fires readystatechange
\* at readyState 4 with status 0
handleCancelRefresh(s) ==
  LET s1 == IF s.esRef = 0 THEN s
            ELSE LET aborted == IF s.jobs[s.esRef].xhr = "open"
                                THEN onreadystatechange(
                                       [s EXCEPT !.jobs[s.esRef].xhr = "aborted"], 0)
                                ELSE s
                 IN  [aborted EXCEPT
                        !.cancels = @ (+) SetToBag({Dataset(s.selectedShop, s.selectedFile)}),
                        !.esRef = 0]
  IN  addToast([s1 EXCEPT !.isRefreshingAvailability = FALSE], "success", "Refresh cancelled")

\* kill() of the process of job id: a process that runs dies, its close event follows
Kill(js, id) == IF js[id].stage = "run" THEN [js EXCEPT ![id].stage = "killed"] ELSE js

\* POST /api/update-availability up to the spawn of the version check
updateAvailability(s, id) ==
  LET job == s.jobs[id]
      existingProcess == s.activeProcesses[job.key]
      s1 == IF existingProcess = 0 THEN s
            ELSE [s EXCEPT !.jobs = Kill(@, existingProcess),
                           !.activeProcesses[job.key] = 0]
      records == s.store[job.key]
  IN  IF Len(records) = 0
      THEN [s1 EXCEPT !.jobs[id].stage = "closed", !.jobs[id].status = 400]
      ELSE [s1 EXCEPT !.jobs[id].stage = "check", !.jobs[id].status = 200,
                      !.jobs[id].headers = StoreHeaders(job.key),
                      !.jobs[id].records = records,
                      !.jobs[id].text = Event(StartMsg(Len(job.urls)))]

\* checkPython.on('close'): the error event, or the spawn of the script
checkPythonClose(s, id, code) ==
  IF code # "0"
  THEN [s EXCEPT !.jobs[id].text = @ \o Event(ErrorMsg(VersionCheckFailed)),
                 !.jobs[id].stage = "closed"]
  ELSE [s EXCEPT !.jobs[id].stage = "run", !.activeProcesses[s.jobs[id].key] = id]

\* /^(https?:\/\/\S+)\s+(\d+)$/ on the line the script prints for a url
LineMatches(url) ==
  /\ \/ (StartsWith(url, "http://") /\ Len(url) > 7)
     \/ (StartsWith(url, "https://") /\ Len(url) > 8)
  /\ \A i \in 1..Len(url) : ~IsSpace(CharAt(url, i))

\* rowMap.get(url): the last row with the canonical url, 0 for undefined
RowMapGet(records, url) ==
  IF \E i \in DOMAIN records : canonicalUrl(records[i].url) = url
  THEN CHOOSE i \in DOMAIN records :
         /\ canonicalUrl(records[i].url) = url
         /\ \A j \in DOMAIN records : canonicalUrl(records[j].url) = url => j <= i
  ELSE 0

\* the time new Date() yields, as 'YYYY-MM-DD HH:MM:SS'
Now == "2025-06-01 12:00:00"

\* row['availability'] = ...; row['last_upd_time'] = ...
SetAvailability(row, availability) ==
  [h \in DOMAIN row \cup {"availability", "last_upd_time"} |->
     IF h = "availability" THEN availability
     ELSE IF h = "last_upd_time" THEN Now ELSE row[h]]

\* rl.on('line') for the line "<url> <availability>"
onLine(s, id, url, availability) ==
  LET job == s.jobs[id]
      rowIdx == RowMapGet(job.records, canonicalUrl(url))
  IN  IF ~LineMatches(url) THEN [s EXCEPT !.jobs[id].printed = @ + 1]
      ELSE [s EXCEPT
             !.jobs[id].printed = @ + 1,
             !.jobs[id].records =
                IF rowIdx = 0 THEN @
                ELSE [@ EXCEPT ![rowIdx] = SetAvailability(@, availability)],
             !.jobs[id].processed = @ + 1,
             !.jobs[id].text = @ \o Event(ProgressMsg(job.processed + 1, Len(job.urls)))]

\* the file the close handler writes: the records under the headers read at the start
WrittenFile(hdrs, records) ==
  [i \in DOMAIN records |-> [h \in Range(hdrs) |-> records[i][h]]]

\* a close handler that writes the file whatever the exit code
onCloseWritesAlways(s, id, code) ==
  LET job == s.jobs[id]
      s1 == [s EXCEPT !.activeProcesses[job.key] = 0, !.jobs[id].stage = "closed",
                      !.store[job.key] = WrittenFile(job.headers, job.records)]
  IN  IF code # "0"
      THEN [s1 EXCEPT !.jobs[id].text = @ \o Event(ErrorMsg(ScriptFailed(code)))]
      ELSE [s1 EXCEPT !.jobs[id].text = @ \o Event(DoneMsg)]

\* py.on('exit') and py.on('close') with the exit code (NULL for a killed process)
onClose(s, id, code) ==
  LET job == s.jobs[id]
      s1 == [s EXCEPT !.activeProcesses[job.key] = 0, !.jobs[id].stage = "closed"]
  IN  IF code # "0"
      THEN [s1 EXCEPT !.jobs[id].text = @ \o Event(ErrorMsg(ScriptFailed(code)))]
      ELSE [s1 EXCEPT !.store[job.key] = WrittenFile(job.headers, job.records),
                      !.jobs[id].text = @ \o Event(DoneMsg)]

\* POST /api/update-availability/cancel
cancelRoute(s, key) ==
  IF key \in Datasets /\ s.activeProcesses[key] # 0
  THEN [s EXCEPT !.jobs = Kill(@, s.activeProcesses[key]), !.activeProcesses[key] = 0]
  ELSE s

(***************************************************************************)
(* Actions of the availability refresh.                                    *)
(***************************************************************************)
\* the availability the script reports for a url
Availabilities == {"1"}

\* the Refresh availability button (disabled while refreshing or without rows), for
\* the first time
RefreshAvailability ==
  /\ error = NULL /\ jobs = <<>>
  /\ ~isRefreshingAvailability /\ Len(data) > 0
  /\ selectedShop # NULL /\ selectedFile # NULL
  /\ Commit(Effects(cur, handleRefreshAvailability(cur), FALSE, FALSE))

\* the Refresh availability button, after an earlier refresh
RefreshAgain ==
  /\ error = NULL /\ jobs # <<>> /\ Len(jobs) < MaxRefreshes
  /\ ~isRefreshingAvailability /\ Len(data) > 0
  /\ selectedShop # NULL /\ selectedFile # NULL
  /\ Commit(Effects(cur, handleRefreshAvailability(cur), FALSE, FALSE))

\* the Cancel button, rendered while refreshing
CancelRefresh ==
  /\ error = NULL /\ isRefreshingAvailability
  /\ Commit(Effects(cur, handleCancelRefresh(cur), FALSE, FALSE))

\* a refresh request reaches the server
RefreshArrives ==
  \E id \in DOMAIN jobs :
    /\ jobs[id].stage = "sent"
    /\ Commit(updateAvailability(cur, id))

\* the version check of a request ends, with exit code 0 or not
VersionCheckCloses ==
  \E id \in DOMAIN jobs, code \in {"0", "1"} :
    /\ jobs[id].stage = "check"
    /\ Commit(checkPythonClose(cur, id, code))

\* the script prints the line of its next url
ScriptLine ==
  \E id \in DOMAIN jobs, availability \in Availabilities :
    /\ jobs[id].stage = "run" /\ jobs[id].printed < Len(jobs[id].urls)
    /\ Commit(onLine(cur, id, jobs[id].urls[jobs[id].printed + 1], availability))

\* the exit codes a process can end with: 0 after its last line, 1 at any time, NULL
\* once it was killed
ExitCodes(job) ==
  IF job.stage = "killed" THEN {NULL}
  ELSE IF job.stage # "run" THEN {}
  ELSE IF job.printed = Len(job.urls) THEN {"0", "1"} ELSE {"1"}

\* the script's process ends
ScriptCloses ==
  \E id \in DOMAIN jobs :
    \E code \in ExitCodes(jobs[id]) : Commit(onClose(cur, id, code))

\* req.on('close') of a request whose client has gone, once the script was spawned
RequestCloses ==
  \E id \in DOMAIN jobs :
    /\ jobs[id].xhr \in {"aborted", "failed"} /\ jobs[id].stage = "run"
    /\ Commit([cur EXCEPT !.jobs = Kill(@, id)])

\* a cancel request reaches the server
CancelArrives ==
  \E key \in BagToSet(cancels) :
    Commit(cancelRoute([cur EXCEPT !.cancels = @ (-) SetToBag({key})], key))

\* the lengths of the response text a progress event can show: all that was written,
\* or all but the bytes the network holds back
CutPoints(job) == {n \in {Len(job.text), Len(job.text) - HeldBack} : n > job.buffer}

\* a progress event of a request
ProgressArrives ==
  \E id \in DOMAIN jobs :
    /\ jobs[id].xhr = "open"
    /\ \E n \in CutPoints(jobs[id]) :
         CommitWithin(Effects(cur, onprogress(cur, id, n), FALSE, FALSE))

\* the response of a request ends: the last progress event, then readyState 4
StreamEnds ==
  \E id \in DOMAIN jobs :
    /\ jobs[id].xhr = "open" /\ jobs[id].stage = "closed"
    /\ LET s1 == IF jobs[id].status = 200 THEN onprogress(cur, id, Len(jobs[id].text))
                  ELSE cur
           s2 == onreadystatechange([s1 EXCEPT !.jobs[id].xhr = "done"], jobs[id].status)
       IN  CommitWithin(Effects(cur, s2, FALSE, FALSE))

\* the connection of a request breaks: readyState 4 with status 0, then onerror
ConnectionFails ==
  \E id \in DOMAIN jobs :
    /\ jobs[id].xhr = "open" /\ jobs[id].stage # "closed"
    /\ Commit(Effects(cur,
         onerror(onreadystatechange([cur EXCEPT !.jobs[id].xhr = "failed"], 0)),
         FALSE, FALSE))

(***************************************************************************)
(* Actions of the viewer.                                                  *)
(***************************************************************************)
\* CategoryManager: the checkbox of a node
TogglePath ==
  /\ error = NULL
  /\ \E path \in Range(collectPaths(categoriesTree)) :
       Commit(Effects(cur, [cur EXCEPT !.selectedCategories =
                              togglePath(collectPaths(categoriesTree), @, path)],
                      FALSE, FALSE))

\* CategoryManager: Select all / Unselect all
ToggleAll ==
  /\ error = NULL /\ Len(categoriesTree) > 0
  /\ Commit(Effects(cur, [cur EXCEPT !.selectedCategories =
                            toggleAll(collectPaths(categoriesTree), @)],
                    FALSE, FALSE))

Search ==
  /\ error = NULL
  /\ \E query \in SearchQueries \ {searchQuery} :
       Commit(Effects(cur, handleSearchChange(cur, query), FALSE, FALSE))

FilterChange ==
  /\ error = NULL
  /\ \E input \in FilterInputs :
       /\ input[1] \in Range(headers)
       /\ handleFilterChange(cur, input[1], input[2]).filters # filters
       /\ Commit(Effects(cur, handleFilterChange(cur, input[1], input[2]), FALSE, FALSE))

\* FilterPanel: an edit of the Equals, Min or Max box of a number column
NumberFilterChange ==
  /\ error = NULL
  /\ \E input \in NumberBoxEdits :
       /\ input[1] \in DOMAIN columnTypes /\ columnTypes[input[1]] = "number"
       /\ Includes(headers, input[1])
       /\ handleNumberFilterChange(cur, input[1], input[2], input[3]).filters # filters
       /\ Commit(Effects(cur, handleNumberFilterChange(cur, input[1], input[2], input[3]),
                         FALSE, FALSE))

\* FilterPanel: Enter in the Contains or Exclude box of a string column
AddPattern ==
  /\ error = NULL
  /\ \E input \in PatternInputs :
       /\ input[1] \in DOMAIN columnTypes /\ columnTypes[input[1]] = "string"
       /\ Includes(headers, input[1])
       /\ addPattern(cur, input[1], input[2], input[3]).filters # filters
       /\ Commit(Effects(cur, addPattern(cur, input[1], input[2], input[3]), FALSE, FALSE))

\* Pagination (rendered under a table that shows rows): the previous / next buttons
PreviousPage ==
  /\ error = NULL /\ currentPage # 1
  /\ paginatedData(cur) # <<>>
  /\ Commit(Effects(cur, handlePrevious(cur), FALSE, FALSE))

NextPage ==
  /\ error = NULL
  /\ \E pages \in {totalPages(cur)} :
       /\ currentPage # pages /\ pages # 0
       /\ Slice(processedData(cur), (currentPage - 1) * rowsPerPage, rowsPerPage) # <<>>
       /\ handleNext(cur, pages) # cur
       /\ Commit(Effects(cur, handleNext(cur, pages), FALSE, FALSE))

\* Pagination: the page size select
RowsPerPageChange ==
  /\ error = NULL
  /\ paginatedData(cur) # <<>>
  /\ \E rows \in RowsPerPageOptions \ {rowsPerPage} :
       Commit(Effects(cur, handleRowsPerPageChange(cur, rows), FALSE, FALSE))

\* the "Hide unknown macros" checkbox
ToggleHideUnknownMacros ==
  /\ error = NULL
  /\ Commit(Effects(cur, [cur EXCEPT !.hideUnknownMacros = ~@],
                    FALSE, FALSE))

\* ColumnManager: the checkbox of a column
ToggleColumn ==
  /\ error = NULL
  /\ \E column \in ToggleColumns :
       /\ Includes(columnOrder, column)
       /\ Commit(Effects(cur, handleColumnVisibilityChange(cur, column,
                                 ~Includes(visibleColumns, column)), FALSE, FALSE))

\* a click on a column header of the table
Sort ==
  /\ error = NULL
  /\ \E column \in SortColumns :
       /\ Includes(visibleColumns, column)
       /\ Commit(Effects(cur, handleSort(cur, column), FALSE, FALSE))

\* typing into the formula box
TypeFormula ==
  /\ error = NULL
  /\ \E f \in Formulas \ {formulaInput} :
       Commit(Effects(cur, [cur EXCEPT !.formulaInput = f], FALSE, FALSE))

\* the operator types a formula with a division into the formula box
TypeDivision ==
  /\ error = NULL
  /\ \E f \in DivisionFormulas \ {formulaInput} :
       Commit(Effects(cur, [cur EXCEPT !.formulaInput = f], FALSE, FALSE))

\* the Apply button (or Enter) of the formula box
ApplyFormula ==
  /\ error = NULL
  /\ Trim(formulaInput) # ""
  /\ Commit(Effects(cur, validateAndApplyFormula(cur), FALSE, FALSE))

\* a click on an entry of the formula history
ApplyFromHistory ==
  /\ error = NULL
  /\ \E i \in DOMAIN formulaHistory :
       Commit(Effects(cur, applyFormulaFromHistory(cur, formulaHistory[i]), FALSE, FALSE))

\* the ascending / descending buttons of the formula sort
FormulaSort ==
  /\ error = NULL
  /\ \E dir \in {"asc", "desc"} :
       /\ Trim(appliedFormula) # "" /\ dir # formulaSortDir
       /\ Commit(Effects(cur, applyFormulaSort(cur, dir), FALSE, FALSE))

ClearFormulaSort ==
  /\ error = NULL /\ formulaSortDir # NULL
  /\ Commit(Effects(cur, clearFormulaSort(cur), FALSE, FALSE))

Next ==
  \/ StructureArrives \/ Reload \/ ReloadArrives \/ SetShop \/ SetFile
  \/ DataArrives \/ DataFails \/ DeleteRow \/ EditRow
  \/ TogglePath \/ ToggleAll \/ Search \/ FilterChange \/ ToggleHideUnknownMacros
  \/ ToggleColumn \/ Sort \/ TypeFormula \/ ApplyFormula \/ ApplyFromHistory \/ FormulaSort
  \/ ClearFormulaSort \/ NumberFilterChange \/ AddPattern
  \/ PreviousPage \/ NextPage \/ RowsPerPageChange
  \/ EditUrl \/ PutRequest \/ DeleteRequest \/ TypeDivision
  \/ RefreshAvailability \/ RefreshAgain \/ CancelRefresh
  \/ RefreshArrives \/ VersionCheckCloses \/ ScriptLine \/ ScriptCloses
  \/ RequestCloses \/ CancelArrives
  \/ ProgressArrives \/ StreamEnds \/ ConnectionFails

Spec == Init /\ [][Next]_vars

(***************************************************************************)
(* The same program with the operator restricted to one part of the        *)
(* screen: the selectors and the network, the category panel, the filter   *)
(* panel, the formula box.                                                 *)
(***************************************************************************)
NextFetch ==
  \/ StructureArrives \/ Reload \/ ReloadArrives \/ SetShop \/ SetFile
  \/ DataArrives \/ DataFails

SpecFetch == Init /\ [][NextFetch]_vars

NextCategory ==
  \/ StructureArrives \/ SetShop \/ SetFile \/ DataArrives \/ DeleteRow \/ EditRow
  \/ TogglePath \/ ToggleAll

SpecCategory == Init /\ [][NextCategory]_vars

NextView ==
  \/ StructureArrives \/ SetShop \/ SetFile \/ DataArrives
  \/ Search \/ FilterChange \/ ToggleHideUnknownMacros \/ ToggleColumn \/ Sort

SpecView == Init /\ [][NextView]_vars

NextFormula ==
  \/ StructureArrives \/ SetShop \/ DataArrives
  \/ TypeFormula \/ ApplyFormula \/ ApplyFromHistory \/ FormulaSort \/ ClearFormulaSort

SpecFormula == Init /\ [][NextFormula]_vars

\* the boxes of the filter panel
NextFilter ==
  \/ StructureArrives \/ SetFile \/ DataArrives
  \/ NumberFilterChange \/ AddPattern \/ ToggleHideUnknownMacros

SpecFilter == Init /\ [][NextFilter]_vars

\* the pager under the table
NextPager ==
  \/ StructureArrives \/ SetFile \/ DataArrives \/ DeleteRow
  \/ TogglePath \/ ToggleHideUnknownMacros
  \/ PreviousPage \/ NextPage \/ RowsPerPageChange

SpecPager == Init /\ [][NextPager]_vars

\* the two sorts
NextSort ==
  \/ StructureArrives \/ SetFile \/ DataArrives
  \/ Sort \/ TypeFormula \/ ApplyFormula \/ FormulaSort

SpecSort == Init /\ [][NextSort]_vars

\* the column sort, the formula sort and the reset of the Reload button together
NextSortMode ==
  \/ StructureArrives \/ DataArrives \/ Reload \/ ReloadArrives
  \/ Sort \/ TypeFormula \/ ApplyFormula \/ ApplyFromHistory \/ FormulaSort
  \/ ClearFormulaSort

SpecSortMode == Init /\ [][NextSortMode]_vars

\* the availability refresh
NextRefresh ==
  \/ StructureArrives \/ SetShop \/ DataArrives
  \/ RefreshAvailability \/ CancelRefresh \/ RefreshArrives \/ VersionCheckCloses
  \/ ScriptLine \/ ScriptCloses \/ RequestCloses \/ CancelArrives
  \/ ProgressArrives \/ StreamEnds \/ ConnectionFails

SpecRefresh == Init /\ [][NextRefresh]_vars

\* the server's processes under refreshes, cancels and further refreshes
NextProcesses ==
  \/ StructureArrives \/ DataArrives
  \/ RefreshAvailability \/ RefreshAgain \/ CancelRefresh \/ RefreshArrives
  \/ VersionCheckCloses \/ ScriptLine \/ ScriptCloses \/ RequestCloses \/ CancelArrives

SpecProcesses == Init /\ [][NextProcesses]_vars

\* formulas with a division
NextDivision ==
  \/ StructureArrives \/ SetFile \/ DataArrives
  \/ TypeDivision \/ ApplyFormula

SpecDivision == Init /\ [][NextDivision]_vars

\* one refresh, with the row menu in use while it runs
NextRefreshEdit ==
  \/ StructureArrives \/ DataArrives
  \/ RefreshAvailability \/ RefreshArrives \/ VersionCheckCloses
  \/ ScriptLine \/ ScriptCloses
  \/ EditRow \/ DeleteRow
SpecRefreshEdit == Init /\ [][NextRefreshEdit]_vars

\* the row routes under the requests of any client of the API
NextRows == PutRequest \/ DeleteRequest

SpecRows == Init /\ [][NextRows]_vars

\* the row menu of the table
NextEdit ==
  \/ StructureArrives \/ SetFile \/ DataArrives
  \/ EditRow \/ EditUrl \/ DeleteRow

SpecEdit == Init /\ [][NextEdit]_vars

(***************************************************************************)
(* Properties.                                                             *)
(***************************************************************************)
\* the rows are rows of the file ds (a row keeps its url through an edit)
BelongsTo(rows, ds) ==
  /\ ds \in Datasets
  /\ \A i \in DOMAIN rows : HasUrl(InitialStore[ds], rows[i].url)

\* C1: in every reachable state the loaded records belong to the currently selected
\* shop/file: the response of a superseded fetch is never applied.
C1_LoadedDataBelongsToSelection ==
  data # <<>> => BelongsTo(data, Dataset(selectedShop, selectedFile))

\* the ancestors and the descendants of a node, by the parent links of the tree
RECURSIVE AncestorsOf(_, _)
AncestorsOf(tree, path) ==
  LET node == tree[CHOOSE i \in DOMAIN tree : tree[i].path = path]
  IN  IF node.parent = NULL THEN {} ELSE {node.parent} \cup AncestorsOf(tree, node.parent)
DescendantsOf(tree, path) ==
  {tree[i].path : i \in {j \in DOMAIN tree : path \in AncestorsOf(tree, tree[j].path)}}

\* C2: category cascade.  For the category tree of every reachable state, every
\* Selection Set over its paths (and the current one) and every node path p: toggling
\* an unselected p yields a set that contains p, every descendant and every ancestor
\* of p; toggling a selected p removes exactly p and its descendants.
C2_CategoryCascade ==
  \A selected \in (SUBSET Range(collectPaths(categoriesTree))) \cup {selectedCategories} :
    \A p \in Range(collectPaths(categoriesTree)) :
       IF p \notin selected
       THEN ({p} \cup DescendantsOf(categoriesTree, p) \cup AncestorsOf(categoriesTree, p))
               \subseteq togglePath(collectPaths(categoriesTree), selected, p)
       ELSE togglePath(collectPaths(categoriesTree), selected, p)
               = selected \ ({p} \cup DescendantsOf(categoriesTree, p))

\* C2 witness: a leaf under "Drinks" was toggled on from the empty Selection Set, and
\* its ancestor came with it while its sibling did not
C2_Witness ==
  /\ selectedCategories = {"Drinks", "Drinks#Tea"}
  /\ "Drinks#Coffee" \in Range(collectPaths(categoriesTree))

\* the dataset exposes a category column
HasCategoryColumn == \E i \in DOMAIN headers : normalizeHeader(headers[i]) = CATEGORY_COLUMN

\* C3: whenever the dataset exposes a category column, every record of the filtered
\* output has its canonical category path in the Selection Set (so the empty
\* Selection Set yields no records).
C3_OutputWithinSelection ==
  HasCategoryColumn =>
    \A i \in DOMAIN processedData(cur) : RowPath(processedData(cur)[i]) \in selectedCategories

\* C4: when the load that follows a dataset-source change completes, every path of the
\* rebuilt category tree, interior nodes included, is in the Selection Set, and every
\* categorized row passes the category filter.
C4_DefaultSelectsEveryPath ==
  [][(data = <<>> /\ data' # <<>>) =>
       /\ Range(collectPaths(categoriesTree')) \subseteq selectedCategories'
       /\ \A i \in DOMAIN data' :
            RowPath(data'[i]) # "" => RowPath(data'[i]) \in selectedCategories']_vars

\* the view parameters of s are the defaults for its header list
ViewDefaults(s) ==
  /\ s.sortConfig = <<>> /\ s.appliedFormula = "" /\ s.formulaSortDir = NULL
  /\ s.filters = EmptyMap /\ s.searchQuery = "" /\ s.currentPage = 1
  /\ s.visibleColumns = DefaultVisibleColumns(s.headers)
  /\ s.columnOrder = DefaultColumnOrder(s.headers)

\* C5: a dataset switch resets the view parameters.  From every state that shows a
\* dataset with nothing in flight, a click on another shop or on another file followed
\* by the arrival of that dataset leaves sort none, formula and formula sort cleared,
\* filters and search empty, page 1 and the default column visibility and order of
\* the new header list.
C5_SwitchResetsView ==
  (error = NULL /\ data # <<>> /\ inflight = EmptyBag /\ structFetch = {}) =>
     /\ \A shop \in DOMAIN structure \ {selectedShop} :
          ViewDefaults(receiveData(selectShop(cur, shop),
                                   Dataset(shop, FirstFile(structure, shop))))
     /\ \A file \in Range(structure[selectedShop]) \ {selectedFile} :
          ViewDefaults(receiveData(selectFile(cur, file), Dataset(selectedShop, file)))

\* the step is the arrival of a re-fetch of the shown shop/file
SameFileRefresh ==
  /\ BagCardinality(inflight') < BagCardinality(inflight)
  /\ error = NULL /\ error' = NULL
  /\ selectedShop' = selectedShop /\ selectedFile' = selectedFile
  /\ data # <<>> /\ BelongsTo(data, Dataset(selectedShop, selectedFile))
  /\ data' # <<>> /\ BelongsTo(data', Dataset(selectedShop, selectedFile))

\* C6: a re-fetch of the same shop/file leaves sort, formula, filters, search text,
\* page, page size and column visibility unchanged, and the Selection Set after it is
\* the previous Selection Set minus the paths that are no longer in the rebuilt tree.
C6_RefreshReconcilesSelection ==
  [][SameFileRefresh =>
       /\ UNCHANGED <<sortConfig, appliedFormula, formulaSortDir, filters, searchQuery,
                      currentPage, rowsPerPage, visibleColumns, columnOrder>>
       /\ selectedCategories' =
            selectedCategories \cap Range(collectPaths(categoriesTree'))]_vars

\* C7: a rejected formula changes nothing.  A step of validateAndApplyFormula that
\* rejects the typed formula, for whichever reason, leaves the applied formula, the
\* formula sort direction, the column sort and every other view parameter as they were.
C7_RejectedFormulaChangesNothing ==
  [][(ApplyFormula /\ RejectionToast(Trim(formulaInput), headers, data) # NULL) =>
       UNCHANGED <<appliedFormula, formulaSortDir, sortConfig, filters, searchQuery,
                   currentPage, rowsPerPage, visibleColumns, columnOrder,
                   hideUnknownMacros, selectedCategories, formulaInput,
                   formulaHistory>>]_vars

\* C7 witness: a formula was rejected for its NaN on the first row while another
\* formula was applied and sorted by, and that formula and its sort are still there
C7_Witness ==
  /\ lastToast = "Formula result is NaN"
  /\ appliedFormula = "\"calories\"/\"price\"" /\ formulaSortDir = "desc"

\* C8: in every state that shows a header list, every column the applied formula
\* references is one of the headers.
C8_FormulaColumnsExist ==
  Len(headers) > 0 =>
    \A i \in DOMAIN QuotedRefs(appliedFormula) :
       Includes(headers, QuotedRefs(appliedFormula)[i])

\* the formula result of a row is a finite number
FiniteResult(row) == EvalFormula(appliedFormula, row).k = "fin"

\* C9: under formula sort, every record whose formula result is NaN or +/-Infinity is
\* ordered as the smallest value: before every record with a finite result when the
\* direction is asc, after every such record when it is desc.
C9_NonFiniteSortsAsSmallest ==
  SortMode(cur) = "formula" =>
    \A i, j \in DOMAIN processedData(cur) :
       (i < j) =>
          IF formulaSortDir = "asc"
          THEN ~(FiniteResult(processedData(cur)[i]) /\ ~FiniteResult(processedData(cur)[j]))
          ELSE ~(~FiniteResult(processedData(cur)[i]) /\ FiniteResult(processedData(cur)[j]))

\* the calories of the row are the sentinel value
HasUnknownMacros(row) == NumEq(parseFloat(Cell(row, "calories")), Fin(UNKNOWN_MACROS, 1))

\* C10: sentinel exclusion.  Whenever hide-unknown-macros is on, no record whose
\* calories equal 100500 is in the filtered output, for the search text, the column
\* filters and the sort of every reachable state and for every category selection.
C10_SentinelExcluded ==
  hideUnknownMacros =>
    \A selected \in SUBSET Range(collectPaths(categoriesTree)) :
       \A i \in DOMAIN processedData([cur EXCEPT !.selectedCategories = selected]) :
          ~HasUnknownMacros(processedData([cur EXCEPT !.selectedCategories = selected])[i])

\* C10 witness: the toggle is on, the loaded file holds a record with the sentinel, and
\* a search, a column filter and a column sort leave other records in the output
C10_Witness ==
  /\ hideUnknownMacros
  /\ \E i \in DOMAIN data : HasUnknownMacros(data[i])
  /\ searchQuery # "" /\ filters # EmptyMap /\ sortConfig # <<>>
  /\ processedData(cur) # <<>>


\* the view states one more constraint away from s: a selected category deselected,
\* a search text entered, the sentinel toggle switched on, a filter added to a
\* column that has none, a pattern added to a string filter
Narrowings(s) ==
  {[s EXCEPT !.selectedCategories = togglePath(collectPaths(s.categoriesTree), @, path)] :
     path \in s.selectedCategories \cap Range(collectPaths(s.categoriesTree))}
  \cup {[s EXCEPT !.searchQuery = query] :
          query \in IF s.searchQuery = "" THEN SearchQueries \ {""} ELSE {}}
  \cup {[s EXCEPT !.hideUnknownMacros = TRUE]}
  \cup {handleNumberFilterChange(s, input[1], input[2], input[3]) :
          input \in {x \in NumberBoxEdits :
                       x[1] \in DOMAIN s.columnTypes \ DOMAIN s.filters /\ x[3] # ""}}
  \cup {addPattern(s, input[1], input[2], input[3]) :
          input \in {x \in PatternInputs : x[1] \in DOMAIN s.columnTypes}}

\* C11: filter monotonicity: adding one more constraint (deselecting a category,
\* entering a search text, switching the sentinel toggle on, adding a column
\* filter, adding a pattern to a string filter) never increases the number of
\* records in the filtered output
C11_FiltersOnlyNarrow ==
  data # <<>> =>
    \A t \in Narrowings(cur) : Len(filteredData(t)) <= Len(filteredData(cur))

\* the position of the row with the url in rows (urls are distinct within a file)
IndexOf(rows, url) == CHOOSE i \in DOMAIN rows : rows[i].url = url

\* the pairs of positions i < j of rows whose sort keys compare equal under the
\* active comparator
EqualKeyPairs(s, mode, rows) ==
  {p \in (DOMAIN rows) \X (DOMAIN rows) :
     p[1] < p[2] /\ Sign(SortCompare(s, mode, rows[p[1]], rows[p[2]])) = 0}

RECURSIVE ConcatPages(_, _, _, _)
ConcatPages(rows, perPage, page, pages) ==
  IF page > pages THEN <<>>
  ELSE Slice(rows, (page - 1) * perPage, perPage) \o ConcatPages(rows, perPage, page + 1, pages)

\* C13: pagination coverage: for every page size, the page slices of pages
\* 1..ceil(total/pageSize) of the filtered and sorted sequence, concatenated in
\* order, are exactly that sequence; an empty sequence has zero total pages and an
\* empty page
C13_PagesCoverTheSequence ==
  /\ \A perPage \in 1..MaxPageSize \cup RowsPerPageOptions :
        ConcatPages(processedData(cur), perPage, 1, CeilDiv(Len(processedData(cur)), perPage))
          = processedData(cur)
  /\ processedData(cur) = <<>> => totalPages(cur) = 0 /\ paginatedData(cur) = <<>>

\* the second page of six records, five to a page, is shown
C13_Witness ==
  /\ Len(processedData(cur)) = 6 /\ rowsPerPage = 5 /\ currentPage = 2
  /\ Len(paginatedData(cur)) = 1

\* C14: page clamping: in every settled state with a non-empty filtered total the
\* current page p satisfies 1 <= p <= ceil(total/pageSize), whatever changed the
\* total (filter, search, category selection, sentinel toggle, data refresh), and
\* a page-size change sets the page to 1
C14_PageWithinRange ==
  /\ [](Len(processedData(cur)) > 0 => 1 <= currentPage /\ currentPage <= totalPages(cur))
  /\ [][rowsPerPage' # rowsPerPage => currentPage' = 1]_vars

\* the refresh after a deletion left five records, five to a page, with the
\* sentinel toggle off: one page, and it is the page shown
C14_Witness ==
  /\ selectedFile = "drinks.csv" /\ Len(data) = 5 /\ ~hideUnknownMacros
  /\ rowsPerPage = 5 /\ Len(processedData(cur)) = 5 /\ currentPage = 1
  /\ totalPages(cur) = 1

\* a bound of a range filter is set when it holds a number: null is the bound of a
\* box that was emptied, NaN the bound of a box that was never filled
BoundSet(x) == x.k # "null" /\ x.k # "nan"

\* v is a number within the set bounds, both inclusive
InRange(v, min, max) ==
  /\ ~isNaN(v)
  /\ BoundSet(min) => NumLe(min, v)
  /\ BoundSet(max) => NumLe(v, max)

\* C15: numeric range filter: a record passes iff its cell parses to a number v
\* with (min unset or v >= min) and (max unset or v <= max); a bound of 0 is a
\* set bound; a cell that does not parse as a number never passes
C15_RangeFilter ==
  \A column \in DOMAIN filters \cap DOMAIN columnTypes :
    (columnTypes[column] = "number" /\ filters[column].type = "range") =>
      \A i \in DOMAIN data :
        PassesFilter(cur, column, data[i])
          <=> InRange(parseFloat(Cell(data[i], column)), filters[column].min, filters[column].max)

\* the state s without the filter of the column
WithoutFilter(s, column) ==
  [s EXCEPT !.filters = [c \in DOMAIN @ \ {column} |-> @[c]]]

\* C16: numeric equals filter: on a numeric column the filter retains exactly the
\* records whose cell, parsed as a number, equals the filter value, and excludes
\* every record whose cell does not parse as a number
C16_EqualsFilter ==
  \A column \in DOMAIN filters \cap DOMAIN columnTypes :
    (columnTypes[column] = "number" /\ filters[column].type = "equals") =>
      filteredData(cur)
        = SelectSeq(filteredData(WithoutFilter(cur, column)),
                    LAMBDA row : /\ ~isNaN(parseFloat(Cell(row, column)))
                                 /\ parseFloat(Cell(row, column)) = filters[column].value)

\* price equals 10 over drinks.csv retains the cells "10" and "10.00" and drops
\* "10.5", "7" and "12"
C16_Witness ==
  /\ selectedFile = "drinks.csv" /\ Len(data) = 6 /\ ~hideUnknownMacros
  /\ "price" \in DOMAIN filters /\ filters["price"] = NumberEquals(Fin(10, 1))
  /\ DOMAIN filters = {"price"}
  /\ [i \in DOMAIN filteredData(cur) |-> filteredData(cur)[i].price] = <<"10", "10.00">>

\* the text q occurs in the text v at some offset
OccursIn(q, v) == \E k \in 0..(Len(v) - Len(q)) : SubSeq(v, k + 1, k + Len(q)) = q

\* the columns of the column order that are not shown
HiddenColumns == {columnOrder[i] : i \in DOMAIN columnOrder} \ {visibleColumns[i] : i \in DOMAIN visibleColumns}

InNoBucket(hdrs) ==
  {hdrs[i] : i \in DOMAIN hdrs}
    \ ({SHOWN_BY_DEFAULT_COLUMNS[i] : i \in DOMAIN SHOWN_BY_DEFAULT_COLUMNS}
          \cup {HIDDEN_BY_DEFAULT_COLUMNS[i] : i \in DOMAIN HIDDEN_BY_DEFAULT_COLUMNS}
          \cup {ALWAYS_HIDDEN_COLUMNS[i] : i \in DOMAIN ALWAYS_HIDDEN_COLUMNS})

\* C18: default columns: when the header list of a dataset is derived, the column
\* order is the shown-by-default columns present, then the hidden-by-default
\* columns present, then all remaining headers; the default visible set holds the
\* shown-by-default columns present and every remaining header that is in no
\* bucket, and no hidden-by-default and no always-hidden column
C18_DefaultColumns ==
  [][prevHeadersRef' # prevHeadersRef =>
       /\ columnOrder' = ShownColumns(headers') \o HiddenToggleColumns(headers')
                            \o RemainderColumns(headers')
       /\ {visibleColumns'[i] : i \in DOMAIN visibleColumns'}
            = {ShownColumns(headers')[i] : i \in DOMAIN ShownColumns(headers')}
                \cup InNoBucket(headers')]_vars

\* C19: loading flag: from the moment a dataset fetch is issued until its response
\* or failure has been processed the loading flag is true in every state (also
\* while an overlapping fetch is still pending), and a response or failure that
\* leaves another fetch pending changes no view parameter
C19_LoadingWhilePending ==
  /\ [](inflight # EmptyBag => loading)
  /\ [][((DataArrives \/ DataFails) /\ inflight' # EmptyBag) =>
          UNCHANGED <<sortConfig, filters, searchQuery, rowsPerPage, hideUnknownMacros,
                      appliedFormula, formulaSortDir>>]_vars

\* what is on the screen in the current state
ScreenNow == Screen(cur)

\* the dataset of the current selection
SelectedDataset == Dataset(selectedShop, selectedFile)

\* C20: a failed re-fetch of the currently loaded dataset never blanks the view:
\* data and headers remain those of the last successful load and the table over
\* them stays presented
C20_FailedRefreshKeepsTable ==
  [][(DataFails /\ data # <<>> /\ ScreenNow = "table"
        /\ BelongsTo(data, SelectedDataset)
        /\ BagIn(SelectedDataset, inflight)
        /\ CopiesIn(SelectedDataset, inflight') < CopiesIn(SelectedDataset, inflight)) =>
       (data' = data /\ headers' = headers /\ ScreenNow' = "table")]_vars

\* the rows of the file whose url has the canonical form of the requested url
CanonicalMatches(rows, url) ==
  {i \in DOMAIN rows : canonicalUrl(rows[i].url) = canonicalUrl(url)}

\* the file after the route has removed, or merged the body into, row i
RowWritten(rows, method, body, i) ==
  IF method = "DELETE" THEN SubSeq(rows, 1, i - 1) \o SubSeq(rows, i + 1, Len(rows))
  ELSE [rows EXCEPT ![i] = [h \in DOMAIN @ |-> IF h \in DOMAIN body THEN body[h] ELSE @[h]]]

\* C23: a by-url request to the PUT route or to the DELETE route selects a row exactly
\* when the canonical form of a stored url (query string and trailing slash stripped)
\* equals the canonical form of the requested url, and writes that row; when no row
\* matches, the response is NotFound (404) and the file is unchanged.
C23_LookupByCanonicalUrl ==
  [][rowResponse' # rowResponse =>
       LET rq == rowResponse'
           rows == store[rq.ds]
           matches == CanonicalMatches(rows, rq.url)
       IN  /\ \A ds \in Datasets \ {rq.ds} : store'[ds] = store[ds]
           /\ matches = {} => rq.status = 404 /\ store'[rq.ds] = rows
           /\ matches # {} =>
                /\ rq.status = 200
                /\ \E i \in matches :
                     store'[rq.ds] = RowWritten(rows, rq.method, rq.body, i)]_vars

\* the index of the first row of the file with the url, 0 when there is none
RowOf(rows, url) ==
  IF \E i \in DOMAIN rows : rows[i].url = url
  THEN CHOOSE i \in DOMAIN rows : rows[i].url = url /\ \A j \in 1..(i - 1) : rows[j].url # url
  ELSE 0

\* C29: saving the edit form of a row writes the form's record over the row the
\* operator opened, found by that row's url before the edit, also when the edit changes
\* the url; every other row, the order of the rows and the header list stay as they
\* are, and no other row and no other file is written.
C29_EditWritesTheOpenedRow ==
  [][(rowResponse' # rowResponse /\ rowResponse'.method = "PUT"
        /\ rowResponse'.opened # NULL) =>
       LET rq == rowResponse'
           rows == store[rq.ds]
           i == RowOf(rows, rq.opened)
       IN  /\ \A ds \in Datasets \ {rq.ds} : store'[ds] = store[ds]
           /\ i # 0 => store'[rq.ds] = [rows EXCEPT ![i] = rq.body]
           /\ i = 0 => store'[rq.ds] = rows]_vars


\* the prefixes of the canonical category paths of the rows with a non-empty category
ExpectedNodePaths(rows) ==
  UNION {LET parts == Split(CanonicalPath(Cell(rows[r], CATEGORY_COLUMN)), "#")
         IN  {Join(SubSeq(parts, 1, i), "#") : i \in 1..Len(parts)} :
         r \in {r \in DOMAIN rows : Cell(rows[r], CATEGORY_COLUMN) \notin {UNDEFINED, ""}}}

\* the forest holds exactly the nodes the rows call for, each under its parent, once
ForestOf(tree, rows) ==
  /\ {tree[i].path : i \in DOMAIN tree} = ExpectedNodePaths(rows)
  /\ \A i \in DOMAIN tree :
       tree[i].path = IF tree[i].parent = NULL THEN tree[i].name
                      ELSE tree[i].parent \o "#" \o tree[i].name
  /\ \A i, j \in DOMAIN tree : tree[i].path = tree[j].path => i = j

\* C24: after every change of the active record set, also when it is replaced by an
\* empty one, the node paths of the category forest are exactly the prefixes of the
\* canonical category paths of the current records, every node's path is its parent's
\* path + '#' + its name, no path occurs twice, and no node of an earlier record set
\* is left.
C24_ForestFollowsRecords == ForestOf(categoriesTree, data)


\* the index after the number written at position j of s: its digits and points
RECURSIVE NumberEnd(_, _)
NumberEnd(s, j) ==
  IF j <= Len(s) /\ (IsDigit(CharAt(s, j)) \/ CharAt(s, j) = ".") THEN NumberEnd(s, j + 1)
  ELSE j

\* s holds a division whose divisor is the constant 0
DividesByConstantZero(s) ==
  \E i \in 1..Len(s) :
     /\ CharAt(s, i) = "/"
     /\ SubSeq(s, SkipWs(s, i + 1), NumberEnd(s, SkipWs(s, i + 1)) - 1) = "0"

\* C25: Apply rejects a formula with the toast 'Division by zero' exactly when the
\* formula, its quoted column references stripped, holds a division whose divisor is
\* the constant 0; a division by 0.5, by 05, by another constant or by a column is not
\* rejected on this ground (formulas over columns of the file).
C25_DivisionByZeroRejection ==
  [][(formulaInput' = formulaInput /\ lastToast' # lastToast
        /\ Len(MissingCols(Trim(formulaInput), headers)) = 0) =>
       ((lastToast' = "Division by zero")
          <=> DividesByConstantZero(StripQuoted(Trim(formulaInput))))]_vars


\* C26: at most one sort mode is active: the column sort and the formula sort
\* direction are never both set, and the formula sort direction is set only while a
\* non-empty formula is applied; a header click moves a column none -> asc -> desc ->
\* none.  This holds through header clicks, formula applications (validated or from
\* the history), formula sort requests, clears and resets.
C26_OneSortMode ==
  /\ [](~(sortConfig # <<>> /\ formulaSortDir # NULL))
  /\ [](formulaSortDir # NULL => Trim(appliedFormula) # "")
  /\ [][(sortConfig' # sortConfig /\ sortConfig' # <<>>) =>
          IF sortConfig # <<>> /\ sortConfig[1].key = sortConfig'[1].key
          THEN sortConfig[1].direction = "asc" /\ sortConfig'[1].direction = "desc"
          ELSE sortConfig'[1].direction = "asc"]_vars

\* a formula sort is active after more than one formula was applied
C26_Witness ==
  /\ formulaSortDir # NULL /\ sortConfig = <<>> /\ Len(formulaHistory) >= 2


\* the file with the updates the script has reported so far: a row whose canonical url
\* the script printed carries the reported availability and the time of the report
Confirmed(rows, job) ==
  [i \in DOMAIN rows |->
     IF \E j \in 1..job.printed :
          /\ LineMatches(job.urls[j])
          /\ canonicalUrl(job.urls[j]) = canonicalUrl(rows[i].url)
     THEN [rows[i] EXCEPT !.availability = CHOOSE a \in Availabilities : TRUE,
                          !.last_upd_time = Now]
     ELSE rows[i]]

\* the text ends with the event
EndsWith(text, event) ==
  Len(text) >= Len(event) /\ SubSeq(text, Len(text) - Len(event) + 1, Len(text)) = event

\* this step, the server wrote the done event of request id
DoneWritten(id) ==
  /\ id \in DOMAIN jobs /\ jobs[id].stage # "closed" /\ jobs'[id].stage = "closed"
  /\ EndsWith(jobs'[id].text, Event(DoneMsg))

\* this step, a progress handler of the client ran over new text of request id
ProgressHandled(id) == id \in DOMAIN jobs /\ jobs'[id].buffer > jobs[id].buffer

\* this step, the client added a toast with the title
Toasted(title) ==
  /\ Len(refreshToasts') > Len(refreshToasts)
  /\ \E i \in (Len(refreshToasts) + 1)..Len(refreshToasts') : refreshToasts'[i].title = title

ErrorToasted ==
  /\ Len(refreshToasts') > Len(refreshToasts)
  /\ \E i \in (Len(refreshToasts) + 1)..Len(refreshToasts') : refreshToasts'[i].type = "error"

\* C22: cancelling a refresh in flight ends it as a normal terminal state: the click
\* leaves the refreshing flag false, reports no error and leaves the record set as it
\* is; after it no progress event of the cancelled request is applied, and the stored
\* file is never written by the cancelled request.
C22_CancelIsNotAnError ==
  [][/\ Toasted("Refresh cancelled") =>
          /\ isRefreshingAvailability' = FALSE
          /\ ~ErrorToasted
          /\ data' = data /\ store' = store
      /\ \A id \in DOMAIN jobs :
          jobs[id].xhr = "aborted" => ~ProgressHandled(id) /\ ~DoneWritten(id)]_vars

\* the processes of a key that run
Running(key) == {id \in DOMAIN jobs : jobs[id].key = key /\ jobs[id].stage = "run"}

\* C27: for each shop/file key at most one availability-check process runs at any
\* time, and while one runs activeProcesses[key] refers to it, under every
\* interleaving of refresh requests, version checks, close events and cancel requests.
C27_OneProcessPerKey ==
  \A key \in Datasets :
    /\ Cardinality(Running(key)) <= 1
    /\ \A id \in Running(key) : activeProcesses[key] = id

\* C30: a row update or delete acknowledged while a refresh runs is still in the stored
\* file after the refresh completes with done: the write of the refresh keeps the rows
\* of the file and every field of them other than availability and last_upd_time.
C30_RefreshKeepsRowWrites ==
  [][\A id \in DOMAIN jobs :
       DoneWritten(id) =>
         LET before == store[jobs[id].key]
             after == store'[jobs[id].key]
         IN  /\ Len(after) = Len(before)
             /\ \A i \in DOMAIN before :
                  \A h \in DOMAIN before[i] \ {"availability", "last_upd_time"} :
                    after[i][h] = before[i][h]]_vars

\* C28: once the response stream of a refresh the client started has ended, the
\* client is no longer in the refreshing state, whether the stream ended with a done
\* event, an error event, a status other than 200, or without a terminal event the
\* client could parse.
C28_StreamEndLeavesRefreshing ==
  \A id \in DOMAIN jobs :
    (jobs[id].xhr = "done" /\ esRef = id) => ~isRefreshingAvailability

====
